---- MODULE Spec2Model ----
(***************************************************************************)
(* Model of the document-to-source compiler of local-builder               *)
(* (src/src/lib/generator.ts): the tree emitters generateShadcnJSX and     *)
(* generateBootstrapJSX, the dependency traversal findUsed, and the        *)
(* export operation saveProject with its archive.                          *)
(*                                                                         *)
(* Text is a sequence of tokens.  A character that comes from a prop value *)
(* is always a token of its own; the literal text of a template is cut     *)
(* into chunks such that the character that follows an interpolation is a  *)
(* token of its own.  A JavaScript exception is the token TypeErr, which   *)
(* every concatenation carries to the top, where saveProject rejects.      *)
(***************************************************************************)
EXTENDS Integers, Sequences, FiniteSets, TLC

\* ------------------------------------------------------------------------
\* The state of one export
\* ------------------------------------------------------------------------
VARIABLES
  pages,              \* the argument pages of saveProject
  format,             \* the argument format
  pageIdx,            \* the index of the page pages.forEach is at
  zip,                \* the files of the JSZip archive: path -> text
  allUsedComponents,  \* the Set allUsedComponents, in insertion order
  code,               \* the text code.trim() of each page compiled so far
  pageNames,          \* the pageName of each page compiled so far
  pc,                 \* "forEach", "generateAsync", "done" or "rejected"
  error,              \* what the promise of saveProject rejected with
  saved,              \* the calls of saveAs: << [content, name] >>
  run,                \* the number of calls of saveProject so far
  prev,               \* what the previous call with these arguments produced
  pagesFolder,        \* zip.folder("src")?.folder("pages") is a folder, not null
  snapshot,           \* the pages as they were when the call in hand started
  pending             \* the calls that await generateAsync besides the call in hand

vars == << pages, format, pageIdx, zip, allUsedComponents, code, pageNames, pc, error, saved,
          run, prev, pagesFolder, snapshot, pending >>

\* ------------------------------------------------------------------------
\* Bounds of the model
\* ------------------------------------------------------------------------
MaxPages == 2

MaxCols == 3

MaxStack == 4

MaxPending == 1

\* ------------------------------------------------------------------------
\* Characters and strings
\* ------------------------------------------------------------------------
Lower == <<"a","b","c","d","e","f","g","h","i","j","k","l","m",
           "n","o","p","q","r","s","t","u","v","w","x","y","z">>

Upper == <<"A","B","C","D","E","F","G","H","I","J","K","L","M",
           "N","O","P","Q","R","S","T","U","V","W","X","Y","Z">>

Digits == <<"0","1","2","3","4","5","6","7","8","9">>

Range(s) == { s[i] : i \in 1..Len(s) }

\* mutant of toLowerCase: no case folding
toLowerCase_Identity(c) == c

\* String.prototype.toLowerCase, one character
toLowerCase(c) ==
  IF \E i \in 1..26 : Upper[i] = c
  THEN Lower[CHOOSE i \in 1..26 : Upper[i] = c]
  ELSE c

\* String.prototype.toUpperCase, one character
toUpperCase(c) ==
  IF \E i \in 1..26 : Lower[i] = c
  THEN Upper[CHOOSE i \in 1..26 : Lower[i] = c]
  ELSE c

\* the character class [a-z0-9] with the flag i
IsAlnum(c) == c \in Range(Lower) \cup Range(Upper) \cup Range(Digits)

\* String(undefined)
Undefined == <<"u","n","d","e","f","i","n","e","d">>

\* String(n) for a number 0 <= n <= 99
NumStr(n) ==
  IF n < 10 THEN << Digits[n + 1] >>
  ELSE << Digits[(n \div 10) + 1], Digits[(n % 10) + 1] >>

RECURSIVE Flatten(_)
\* concatenation of a sequence of texts
Flatten(ss) ==
  IF ss = <<>> THEN <<>> ELSE Head(ss) \o Flatten(Tail(ss))

RECURSIVE Join(_, _)
\* Array.prototype.join with the separator text sep
Join(ss, sep) ==
  IF ss = <<>> THEN <<>>
  ELSE IF Len(ss) = 1 THEN ss[1]
  ELSE ss[1] \o sep \o Join(Tail(ss), sep)

\* String.prototype.startsWith
startsWith(s, p) ==
  /\ Len(p) <= Len(s)
  /\ \A i \in 1..Len(p) : s[i] = p[i]

\* text t occurs in text s starting at position i
OccursAt(t, s, i) ==
  /\ i + Len(t) - 1 <= Len(s)
  /\ \A j \in 1..Len(t) : s[i + j - 1] = t[j]

Occurrences(t, s) == { i \in 1..Len(s) : OccursAt(t, s, i) }

Contains(s, t) == t = <<>> \/ Occurrences(t, s) # {}

\* the token of a thrown exception
TypeErr == "#TypeError#"

RangeErr == "#RangeError#"

\* the token of the character U+0060 (grave accent)
Backtick == "#backtick#"

Threw(text) == TypeErr \in Range(text) \/ RangeErr \in Range(text)

\* ------------------------------------------------------------------------
\* JavaScript values.  A record stands for an object; a field the object
\* does not have is a field outside the record's DOMAIN (undefined).
\* ------------------------------------------------------------------------
Has(obj, f) == f \in DOMAIN obj

\* the props that hold numbers (types.ts); every other prop is a string
NumFields == {"columns", "gap", "paddingY", "value"}

\* truthiness of props[f]: undefined, 0 and "" are falsy
Truthy(props, f) ==
  /\ Has(props, f)
  /\ IF f \in NumFields THEN props[f] # 0 ELSE props[f] # <<>>

\* `${props.f}`
Interp(props, f) ==
  IF ~Has(props, f) THEN Undefined
  ELSE IF f \in NumFields THEN NumStr(props[f])
  ELSE props[f]

\* item.readOnly?.puckId is present
HasPuckId(item) == Has(item, "readOnly") /\ Has(item.readOnly, "puckId")

\* `${item.readOnly?.puckId}`
PuckIdStr(item) == IF HasPuckId(item) THEN item.readOnly.puckId ELSE Undefined

\* `${item.readOnly?.puckId}:col-${i}`
ZoneKey(item, i) == PuckIdStr(item) \o <<":", "c", "o", "l", "-">> \o NumStr(i)

\* mutant of ZoneItems: data.zones[zoneKey] without the fallbacks, so that a
\* missing zone makes the caller throw (the item without props stands for
\* the TypeError)
ZoneItems_NoFallback(data, zoneKey) ==
  IF Has(data, "zones") /\ \E k \in 1..Len(data.zones) : data.zones[k].key = zoneKey
  THEN data.zones[CHOOSE k \in 1..Len(data.zones) : data.zones[k].key = zoneKey].items
  ELSE << [type |-> "Card"] >>

\* data.zones?.[zoneKey] || []   (zones: a sequence of [key, items] entries in
\* insertion order, the order Object.keys returns)
ZoneItems(data, zoneKey) ==
  IF ~Has(data, "zones") THEN <<>>
  ELSE IF \E k \in 1..Len(data.zones) : data.zones[k].key = zoneKey
       THEN data.zones[CHOOSE k \in 1..Len(data.zones) : data.zones[k].key = zoneKey].items
       ELSE <<>>

\* ------------------------------------------------------------------------
\* Templates: a template literal of the source is a sequence of parts, a
\* literal chunk [lit] or an interpolation `${props.f}` [slot, ctx].  ctx is
\* the syntax the interpolation stands in: "dq" a double-quoted literal, "sq"
\* a single-quoted literal, "text" JSX text, "expr" a JSX expression.
\* ------------------------------------------------------------------------
Lit(s) == [lit |-> s]

Slot(f, ctx) == [slot |-> f, ctx |-> ctx]

IsSlot(part) == "slot" \in DOMAIN part

RECURSIVE Fill(_, _)
\* the value of a template literal for the given props
Fill(tpl, props) ==
  IF tpl = <<>> THEN <<>>
  ELSE (IF IsSlot(Head(tpl)) THEN Interp(props, Head(tpl).slot)
        ELSE << Head(tpl).lit >>) \o Fill(Tail(tpl), props)

\* ------------------------------------------------------------------------
\* String constants of the source, as character sequences
\* ------------------------------------------------------------------------
S_link == << "l", "i", "n", "k" >>

S_alert == << "a", "l", "e", "r", "t" >>

S_lg == << "l", "g" >>

S_sm == << "s", "m" >>

S_default == << "d", "e", "f", "a", "u", "l", "t" >>

S_destructive == << "d", "e", "s", "t", "r", "u", "c", "t", "i", "v", "e" >>

S_outline == << "o", "u", "t", "l", "i", "n", "e" >>

S_secondary == << "s", "e", "c", "o", "n", "d", "a", "r", "y" >>

S_ghost == << "g", "h", "o", "s", "t" >>

S_vertical == << "v", "e", "r", "t", "i", "c", "a", "l" >>

S_max_w_full == << "m", "a", "x", "-", "w", "-", "f", "u", "l", "l" >>

S_untitled == << "u", "n", "t", "i", "t", "l", "e", "d" >>

\* ------------------------------------------------------------------------
\* The template literals of the emitters and of the page wrapper
\* ------------------------------------------------------------------------
\* generateShadcnJSX, case "Section": the text before ${columnsJSX}
ShadcnSectionOpen ==
  << Lit("\n      <section \n        style={{ \n          backgroundColor: '"),
     Slot("bgColor", "sq"), Lit("'"), Lit(", \n          paddingTop: '"), Slot("paddingY", "sq"),
     Lit("p"), Lit("x', \n          paddingBottom: '"), Slot("paddingY", "sq"), Lit("p"),
     Lit("x' \n        }}\n      >\n        <div \n          className=\"grid w-full px-6\" \n          style={{ \n            gridTemplateColumns: 'repeat("),
     Slot("columns", "sq"), Lit(","), Lit(" minmax(0, 1fr))', \n            gap: '"),
     Slot("gap", "sq"), Lit("p"), Lit("x' \n          }}\n        >\n          ") >>

\* generateShadcnJSX, case "Card": the text before the footer
ShadcnCard ==
  << Lit("<Card><CardHeader><CardTitle>"), Slot("title", "text"), Lit("<"),
     Lit("/CardTitle><CardDescription>"), Slot("description", "text"), Lit("<"),
     Lit("/CardDescription></CardHeader><CardContent>"), Slot("content", "text"), Lit("<"),
     Lit("/CardContent>") >>

\* generateShadcnJSX, case "Card": the footer, emitted when props.footer is truthy
ShadcnCardFooter ==
  << Lit("<CardFooter>"), Slot("footer", "text"), Lit("<"), Lit("/CardFooter>") >>

\* generateShadcnJSX, case "Button": the text before ${onClick}
ShadcnButtonOpen ==
  << Lit("<Button variant=\""), Slot("variant", "dq"), Lit("\""), Lit(" size=\""),
     Slot("size", "dq"), Lit("\"") >>

\* onClick of a Button whose actionType is "link"
OnClickLink ==
  << Lit(" onClick={() => window.location.href = \""), Slot("actionTarget", "dq"), Lit("\""),
     Lit("}") >>

\* onClick of a Button whose actionType is "alert"
OnClickAlert ==
  << Lit(" onClick={() => alert(\""), Slot("actionTarget", "dq"), Lit("\""), Lit(")}") >>

\* generateShadcnJSX, case "Button": the text after ${onClick}
ShadcnButtonClose ==
  << Lit(">"), Slot("text", "text"), Lit("<"), Lit("/Button>") >>

\* generateShadcnJSX, case "Badge"
ShadcnBadge ==
  << Lit("<Badge variant=\""), Slot("variant", "dq"), Lit("\""), Lit(">"), Slot("text", "text"),
     Lit("<"), Lit("/Badge>") >>

\* generateShadcnJSX, case "Separator"
ShadcnSeparator ==
  << Lit("<Separator orientation=\""), Slot("orientation", "dq"), Lit("\""), Lit(" />") >>

\* generateShadcnJSX, case "Alert"
ShadcnAlert ==
  << Lit("<Alert variant=\""), Slot("variant", "dq"), Lit("\""),
     Lit("><AlertCircle className=\"h-4 w-4\" /><AlertTitle>"), Slot("title", "text"), Lit("<"),
     Lit("/AlertTitle><AlertDescription>"), Slot("description", "text"), Lit("<"),
     Lit("/AlertDescription></Alert>") >>

\* generateShadcnJSX, case "Progress"
ShadcnProgress ==
  << Lit("<div className=\"w-full space-y-2\"><Label>"), Slot("label", "text"), Lit("<"),
     Lit("/Label><Progress value={"), Slot("value", "expr"), Lit("}"), Lit(" /></div>") >>

\* generateShadcnJSX, case "Input"
ShadcnInput ==
  << Lit("<div className=\"space-y-2\"><Label>"), Slot("label", "text"), Lit("<"),
     Lit("/Label><Input type=\""), Slot("type", "dq"), Lit("\""), Lit(" placeholder=\""),
     Slot("placeholder", "dq"), Lit("\""), Lit(" /></div>") >>

\* generateShadcnJSX, case "Accordion": one item, after <AccordionItem value="item-${i}
ShadcnAccordionItem ==
  << Lit("\"><AccordionTrigger>"), Slot("title", "text"), Lit("<"),
     Lit("/AccordionTrigger><AccordionContent>"), Slot("content", "text"), Lit("<"),
     Lit("/AccordionContent></AccordionItem>") >>

\* generateBootstrapJSX, case "Section": the text before ${columnsJSX}
BootstrapSectionOpen ==
  << Lit("\n      <section className=\"container-fluid\" style={{ backgroundColor: '"),
     Slot("bgColor", "sq"), Lit("'"), Lit(", paddingTop: '"), Slot("paddingY", "sq"), Lit("p"),
     Lit("x', paddingBottom: '"), Slot("paddingY", "sq"), Lit("p"),
     Lit("x' }}>\n        <div className=\"row\" style={{ gap: '"), Slot("gap", "sq"), Lit("p"),
     Lit("x' }}>\n          ") >>

\* generateBootstrapJSX, case "Card": the text before the footer
BootstrapCard ==
  << Lit("\n        <div className=\"card h-100 shadow-sm\">\n          <div className=\"card-header bg-white\">\n            <h5 className=\"card-title mb-0\">"),
     Slot("title", "text"), Lit("<"), Lit("/h5>\n            <small className=\"text-muted\">"),
     Slot("description", "text"), Lit("<"),
     Lit("/small>\n          </div>\n          <div className=\"card-body\">\n            <p className=\"card-text\">"),
     Slot("content", "text"), Lit("<"), Lit("/p>\n          </div>\n          ") >>

\* generateBootstrapJSX, case "Card": the footer, emitted when props.footer is truthy
BootstrapCardFooter ==
  << Lit("<div className=\"card-footer text-muted\">"), Slot("footer", "text"), Lit("<"),
     Lit("/div>") >>

\* generateBootstrapJSX, case "Button": the text after ${onClick}
BootstrapButtonClose ==
  << Lit(">"), Slot("text", "text"), Lit("<"), Lit("/button>") >>

\* generateBootstrapJSX, case "Badge": the text after ${badgeClass}
BootstrapBadgeClose ==
  << Lit(Backtick), Lit("}>"), Slot("text", "text"), Lit("<"), Lit("/span>") >>

\* generateBootstrapJSX, case "Alert": the text after ${alertClass}
BootstrapAlertClose ==
  << Lit(Backtick), Lit("} role=\"alert\">\n          <h6 className=\"alert-heading fw-bold\">"),
     Slot("title", "text"), Lit("<"), Lit("/h6>\n          <p className=\"mb-0\">"),
     Slot("description", "text"), Lit("<"), Lit("/p>\n        </div>") >>

\* generateBootstrapJSX, case "Input"
BootstrapInput ==
  << Lit("\n        <div className=\"mb-3\">\n          <label className=\"form-label fw-bold text-muted small text-uppercase\">"),
     Slot("label", "text"), Lit("<"), Lit("/label>\n          <input type=\""), Slot("type", "dq"),
     Lit("\""), Lit(" className=\"form-control\" placeholder=\""), Slot("placeholder", "dq"),
     Lit("\""), Lit(" />\n        </div>") >>

\* generateBootstrapJSX, case "Progress"
BootstrapProgress ==
  << Lit("\n        <div className=\"mb-3 w-100\">\n            <label className=\"form-label fw-bold text-muted small text-uppercase\">"),
     Slot("label", "text"), Lit("<"),
     Lit("/label>\n            <div className=\"progress\" style={{ height: '6px' }}>\n                <div className=\"progress-bar\" role=\"progressbar\" style={{ width: \""),
     Slot("value", "dq"), Lit("%"), Lit("\" }} aria-valuenow={"), Slot("value", "expr"), Lit("}"),
     Lit(" aria-valuemin={0} aria-valuax={100}></div>\n            </div>\n        </div>") >>

\* generateBootstrapJSX, case "Accordion": one item, from the end of data-bs-target to id="collapse
BootstrapAccordionItemTitle ==
  << Lit("\">\n                "), Slot("title", "text"), Lit("\n"),
     Lit("              </button>\n            </h2>\n            <div id=\"collapse") >>

\* generateBootstrapJSX, case "Accordion": one item, after id="collapse${i}
BootstrapAccordionItemBody ==
  << Lit("\" className=\"accordion-collapse collapse\" data-bs-parent=\"#accordionExample\">\n              <div className=\"accordion-body\">\n                "),
     Slot("content", "text"), Lit("\n"),
     Lit("              </div>\n            </div>\n          </div>") >>

\* saveProject, shadcn: the page function from its parameter list to ${jsx}
ShadcnRootOpen ==
  << Lit("() {\n  return (\n    <div className=\"min-h-screen w-full transition-all\" style={{ backgroundColor: '"),
     Slot("canvasColor", "sq"), Lit("'"), Lit(" }}>\n      <div className=\"mx-auto "),
     Slot("maxWidth", "dq"), Lit("\""), Lit(">\n        ") >>

\* saveProject, bootstrap: the page function from its parameter list to the container class
BootstrapRootOpen ==
  << Lit("() {\n  return (\n    <div style={{ backgroundColor: '"), Slot("canvasColor", "sq"),
     Lit("'"), Lit(", minHeight: '100vh' }}>\n      <div className=\"") >>


\* ------------------------------------------------------------------------
\* SHADCN CONFIGURATION
\* ------------------------------------------------------------------------
\* the keys of SHADCN_COMPONENT_MAP
ShadcnMapTypes ==
  {"Section", "Card", "Button", "Input", "Label", "Accordion", "Separator",
   "Badge", "Alert", "Progress"}

\* SHADCN_COMPONENT_MAP[t], for t a key of the map
SHADCN_COMPONENT_MAP(t) ==
  CASE t = "Section"   -> [path |-> "", imports |-> "", cli |-> ""]
    [] t = "Card"      -> [path |-> "@/components/ui/card",
                           imports |-> "Card, CardHeader, CardTitle, CardDescription, CardContent, CardFooter",
                           cli |-> "card"]
    [] t = "Button"    -> [path |-> "@/components/ui/button", imports |-> "Button", cli |-> "button"]
    [] t = "Input"     -> [path |-> "@/components/ui/input", imports |-> "Input", cli |-> "input"]
    [] t = "Label"     -> [path |-> "@/components/ui/label", imports |-> "Label", cli |-> "label"]
    [] t = "Accordion" -> [path |-> "@/components/ui/accordion",
                           imports |-> "Accordion, AccordionContent, AccordionItem, AccordionTrigger",
                           cli |-> "accordion"]
    [] t = "Separator" -> [path |-> "@/components/ui/separator", imports |-> "Separator", cli |-> "separator"]
    [] t = "Badge"     -> [path |-> "@/components/ui/badge", imports |-> "Badge", cli |-> "badge"]
    [] t = "Alert"     -> [path |-> "@/components/ui/alert",
                           imports |-> "Alert, AlertDescription, AlertTitle", cli |-> "alert"]
    [] t = "Progress"  -> [path |-> "@/components/ui/progress", imports |-> "Progress", cli |-> "progress"]

\* ------------------------------------------------------------------------
\* BOOTSTRAP HELPERS
\* ------------------------------------------------------------------------
\* map[variant] || "btn-primary"
mapBootstrapVariant(props) ==
  IF ~Has(props, "variant") THEN "btn-primary"
  ELSE CASE props.variant = S_default     -> "btn-primary"
         [] props.variant = S_destructive -> "btn-danger"
         [] props.variant = S_outline     -> "btn-outline-dark"
         [] props.variant = S_secondary   -> "btn-secondary"
         [] props.variant = S_ghost       -> "btn-link"
         [] props.variant = S_link        -> "btn-link"
         [] OTHER                         -> "btn-primary"

\* ------------------------------------------------------------------------
\* GENERATORS
\* ------------------------------------------------------------------------
\* the types the switch of either emitter has a case for
EmitterCases ==
  {"Section", "Card", "Button", "Badge", "Separator", "Alert", "Progress",
   "Input", "Accordion"}

\* mutant of ColCount: only the first column of a Section is emitted
ColCount_FirstColumnOnly(props) ==
  IF Truthy(props, "columns") /\ props.columns < 1 THEN props.columns ELSE 1

\* props.columns || 1
ColCount(props) == IF Truthy(props, "columns") THEN props.columns ELSE 1

\* the template literal onClick is assigned: the "alert" branch runs last and
\* wins; without a match onClick stays ""
OnClickTemplate(props) ==
  IF Has(props, "actionType") /\ props.actionType = S_alert /\ Truthy(props, "actionTarget")
  THEN OnClickAlert
  ELSE IF Has(props, "actionType") /\ props.actionType = S_link /\ Truthy(props, "actionTarget")
  THEN OnClickLink
  ELSE <<>>

\* let onClick = ""; if (props.actionType === ... && props.actionTarget) onClick = ...
OnClick(props) == Fill(OnClickTemplate(props), props)

\* props.items?.map(...).join("") of the shadcn Accordion
ShadcnAccordionItems(props) ==
  IF ~Has(props, "items") THEN Undefined
  ELSE Flatten([i \in 1..Len(props.items) |->
         <<"<AccordionItem value=\"item-">> \o NumStr(i - 1)
           \o Fill(ShadcnAccordionItem, props.items[i])])

\* props.items?.map(...).join("") of the bootstrap Accordion
BootstrapAccordionItems(props) ==
  IF ~Has(props, "items") THEN Undefined
  ELSE Flatten([i \in 1..Len(props.items) |->
         <<"\n          <div className=\"accordion-item\">\n            <h2 className=\"accordion-header\">\n              <button className=\"accordion-button collapsed\" type=\"button\" data-bs-toggle=\"collapse\" data-bs-target=\"#collapse">>
           \o NumStr(i - 1) \o Fill(BootstrapAccordionItemTitle, props.items[i])
           \o NumStr(i - 1) \o Fill(BootstrapAccordionItemBody, props.items[i])])

\* the wrapper of one column of a shadcn Section around its zone content
ShadcnColumn(zoneContent) ==
  <<"\n        <div className=\"flex flex-col gap-4\">\n          ">>
    \o zoneContent \o <<"\n        </div>">>

\* mutant of BootstrapColumn: the wrapper without the children of the zone
BootstrapColumn_Empty(colSize, zoneContent) ==
  <<"\n        <div className=\"col-md-">> \o NumStr(colSize)
    \o <<" mb-3 d-flex flex-column gap-3\">\n          ">>
    \o <<"\n        </div>">>

\* the wrapper of one column of a bootstrap Section around its zone content
BootstrapColumn(colSize, zoneContent) ==
  <<"\n        <div className=\"col-md-">> \o NumStr(colSize)
    \o <<" mb-3 d-flex flex-column gap-3\">\n          ">>
    \o zoneContent \o <<"\n        </div>">>

RECURSIVE generateShadcnJSX(_, _, _)
\* generateShadcnJSX(item, data); depth is the depth of the call stack
generateShadcnJSX(item, data, depth) ==
  IF depth > MaxStack THEN << RangeErr >>
  ELSE IF item.type \notin EmitterCases THEN <<>>
  ELSE IF ~Has(item, "props") THEN << TypeErr >>
  ELSE LET props == item.props IN
    CASE item.type = "Section" ->
           LET column(i) ==
                 LET zoneItems == ZoneItems(data, ZoneKey(item, i))
                     zoneContent ==
                       Join([k \in 1..Len(zoneItems) |->
                               generateShadcnJSX(zoneItems[k], data, depth + 1)],
                            <<"\n          ">>)
                 IN ShadcnColumn(zoneContent)
               columnsJSX == Join([i \in 1..ColCount(props) |-> column(i - 1)], <<"\n">>)
           IN Fill(ShadcnSectionOpen, props) \o columnsJSX
                \o <<"\n        </div>\n      </section>">>
      [] item.type = "Card" ->
           Fill(ShadcnCard, props)
             \o (IF Truthy(props, "footer") THEN Fill(ShadcnCardFooter, props) ELSE <<>>)
             \o <<"</Card>">>
      [] item.type = "Button" ->
           Fill(ShadcnButtonOpen, props) \o OnClick(props) \o Fill(ShadcnButtonClose, props)
      [] item.type = "Badge" -> Fill(ShadcnBadge, props)
      [] item.type = "Separator" -> Fill(ShadcnSeparator, props)
      [] item.type = "Alert" -> Fill(ShadcnAlert, props)
      [] item.type = "Progress" -> Fill(ShadcnProgress, props)
      [] item.type = "Input" -> Fill(ShadcnInput, props)
      [] item.type = "Accordion" ->
           <<"<Accordion type=\"single\" collapsible>">> \o ShadcnAccordionItems(props)
             \o <<"</Accordion>">>

RECURSIVE generateBootstrapJSX(_, _, _)
\* generateBootstrapJSX(item, data); depth is the depth of the call stack
generateBootstrapJSX(item, data, depth) ==
  IF depth > MaxStack THEN << RangeErr >>
  ELSE IF item.type \notin EmitterCases THEN <<>>
  ELSE IF ~Has(item, "props") THEN << TypeErr >>
  ELSE LET props == item.props IN
    CASE item.type = "Section" ->
           LET colSize == 12 \div ColCount(props)
               column(i) ==
                 LET zoneItems == ZoneItems(data, ZoneKey(item, i))
                     zoneContent ==
                       Join([k \in 1..Len(zoneItems) |->
                               generateBootstrapJSX(zoneItems[k], data, depth + 1)],
                            <<"\n">>)
                 IN BootstrapColumn(colSize, zoneContent)
               columnsJSX == Join([i \in 1..ColCount(props) |-> column(i - 1)], <<"\n">>)
           IN Fill(BootstrapSectionOpen, props) \o columnsJSX
                \o <<"\n        </div>\n      </section>">>
      [] item.type = "Card" ->
           Fill(BootstrapCard, props)
             \o (IF Truthy(props, "footer") THEN Fill(BootstrapCardFooter, props) ELSE <<>>)
             \o <<"\n        </div>">>
      [] item.type = "Button" ->
           LET bootstrapClass == mapBootstrapVariant(props)
               sizeClass == IF Has(props, "size") /\ props.size = S_lg THEN "btn-lg"
                            ELSE IF Has(props, "size") /\ props.size = S_sm THEN "btn-sm"
                            ELSE ""
           IN <<"<button type=\"button\" className={", Backtick, "btn ", bootstrapClass, " ",
                sizeClass, " w-100", Backtick, "}">> \o OnClick(props) \o Fill(BootstrapButtonClose, props)
      [] item.type = "Badge" ->
           LET badgeClass == IF Has(props, "variant") /\ props.variant = S_secondary
                             THEN "bg-secondary"
                             ELSE IF Has(props, "variant") /\ props.variant = S_outline
                             THEN "border text-dark"
                             ELSE "bg-primary"
           IN <<"<span className={", Backtick, "badge ", badgeClass>> \o Fill(BootstrapBadgeClose, props)
      [] item.type = "Alert" ->
           LET alertClass == IF Has(props, "variant") /\ props.variant = S_destructive
                             THEN "alert-danger" ELSE "alert-primary"
           IN <<"\n        <div className={", Backtick, "alert ", alertClass>>
                \o Fill(BootstrapAlertClose, props)
      [] item.type = "Input" -> Fill(BootstrapInput, props)
      [] item.type = "Progress" -> Fill(BootstrapProgress, props)
      [] item.type = "Separator" ->
           <<"<hr className=\"",
             IF Has(props, "orientation") /\ props.orientation = S_vertical
             THEN "d-inline-block h-100 border-end border-0 align-middle mx-3" ELSE "my-3",
             "\" />">>
      [] item.type = "Accordion" ->
           <<"\n        <div className=\"accordion\" id=\"accordionExample\">\n          ">>
             \o BootstrapAccordionItems(props) \o <<"\n        </div>">>

\* ------------------------------------------------------------------------
\* MAIN EXPORT FUNCTION: the parts of saveProject
\* ------------------------------------------------------------------------
\* mutant of SetAdd: an array that takes every element, not a Set
SetAdd_NoDedup(set, x) == Append(set, x)

\* Set.prototype.add on a Set kept in insertion order
SetAdd(set, x) == IF x \in Range(set) THEN set ELSE Append(set, x)

\* const pageProps = page.data.root.props; an absent props object reads as an
\* object without fields under the optional chaining pageProps?.f
EmptyObject == [absent |-> TRUE]

PageProps(page) ==
  IF Has(page.data.root, "props") THEN page.data.root.props ELSE EmptyObject

\* mutant of PageName: without the fallback || "untitled"
PageName_NoFallback(page) ==
  LET pageProps == PageProps(page) IN
  IF ~Has(pageProps, "pageTitle") THEN Undefined
  ELSE [i \in 1..Len(pageProps.pageTitle) |->
          toLowerCase(IF IsAlnum(pageProps.pageTitle[i]) THEN pageProps.pageTitle[i] ELSE "_")]

\* mutant of PageName: the name carries the number of the call, as a
\* time stamp would
PageName_Stamped(page) ==
  LET pageProps == PageProps(page)
      stamp == IF run = 2 THEN << "2" >> ELSE <<>>
  IN IF ~Has(pageProps, "pageTitle") THEN S_untitled \o stamp
     ELSE [i \in 1..Len(pageProps.pageTitle) |->
             toLowerCase(IF IsAlnum(pageProps.pageTitle[i]) THEN pageProps.pageTitle[i]
                         ELSE "_")] \o stamp

\* pageProps?.pageTitle?.replace(/[^a-z0-9]/gi, '_').toLowerCase() || "untitled"
PageName(page) ==
  LET pageProps == PageProps(page) IN
  IF ~Has(pageProps, "pageTitle") THEN S_untitled
  ELSE LET title == pageProps.pageTitle
           replaced == [i \in 1..Len(title) |->
                          toLowerCase(IF IsAlnum(title[i]) THEN title[i] ELSE "_")]
       IN IF replaced = <<>> THEN S_untitled ELSE replaced

\* pageName.charAt(0).toUpperCase() + pageName.slice(1)
FunctionName(pageName) ==
  IF pageName = <<>> THEN <<>>
  ELSE << toUpperCase(pageName[1]) >> \o Tail(pageName)

RECURSIVE findUsed(_, _, _, _)
RECURSIVE findUsedKeys(_, _, _, _, _)
\* findUsed(items) of the page, with usedOnPage threaded through as r.used;
\* r.visited are the zone keys it has descended into, r.ok is FALSE when the
\* recursion is deeper than the call stack (RangeError); depth is the depth
\* of the call stack
findUsed(items, page, r, depth) ==
  IF depth > MaxStack THEN [r EXCEPT !.ok = FALSE]
  ELSE IF items = <<>> \/ ~r.ok THEN r
  ELSE LET i == Head(items)
           u1 == SetAdd(r.used, i.type)
           u2 == IF i.type \in {"Input", "Progress"} THEN SetAdd(u1, "Label") ELSE u1
           r2 == [r EXCEPT !.used = u2]
           r3 == IF HasPuckId(i) /\ i.readOnly.puckId # <<>> /\ Has(page.data, "zones")
                 THEN findUsedKeys(i.readOnly.puckId, 1, page, r2, depth)
                 ELSE r2
       IN findUsed(Tail(items), page, r3, depth)

\* Object.keys(page.data.zones).forEach(key => ...) from the k-th key on
findUsedKeys(puckId, k, page, r, depth) ==
  IF k > Len(page.data.zones) \/ ~r.ok THEN r
  ELSE LET entry == page.data.zones[k]
           r2 == IF startsWith(entry.key, puckId)
                 THEN findUsed(entry.items, page,
                               [r EXCEPT !.visited = @ \cup {entry.key}], depth + 1)
                 ELSE r
       IN findUsedKeys(puckId, k + 1, page, r2, depth)

\* usedOnPage after findUsed(page.data.content)
UsedOnPage(page) ==
  findUsed(page.data.content, page, [used |-> <<>>, visited |-> {}, ok |-> TRUE], 1)

\* mutant of ImportLine: a declaration for every type that is used, without
\* the look-up in SHADCN_COMPONENT_MAP
ImportLine_Unchecked(t) ==
  IF t \in ShadcnMapTypes
  THEN << "import { ", SHADCN_COMPONENT_MAP(t).imports, " } from \"",
          SHADCN_COMPONENT_MAP(t).path, "\";" >>
  ELSE << "import { ", t, " } from \"", "@/components/ui/", "\";" >>

\* the import declaration of type t, or "" (the empty text)
ImportLine(t) ==
  IF t \in ShadcnMapTypes /\ SHADCN_COMPONENT_MAP(t).path # ""
  THEN << "import { ", SHADCN_COMPONENT_MAP(t).imports, " } from \"",
          SHADCN_COMPONENT_MAP(t).path, "\";" >>
  ELSE <<>>

\* Array.prototype.filter(Boolean) on a sequence of texts
FilterBoolean(ss) == SelectSeq(ss, LAMBDA x : x # <<>>)

\* mutant of ImportStr: the declarations in the reverse of the Set's order
ImportStr_Reversed(usedOnPage) ==
  Join(FilterBoolean([k \in 1..Len(usedOnPage) |->
                        ImportLine(usedOnPage[Len(usedOnPage) + 1 - k])]), <<"\n">>)

\* Array.from(usedOnPage).map(...).filter(Boolean).join("\n")
ImportStr(usedOnPage) ==
  Join(FilterBoolean([k \in 1..Len(usedOnPage) |-> ImportLine(usedOnPage[k])]), <<"\n">>)

\* the emitter saveProject calls for the format
EmitJSX(item, data, fmt) ==
  IF fmt = "shadcn" THEN generateShadcnJSX(item, data, 1)
  ELSE generateBootstrapJSX(item, data, 1)

\* mutant of PageJsx: the root nodes are emitted last to first
PageJsx_Reversed(page, fmt) ==
  Join([k \in 1..Len(page.data.content) |->
          EmitJSX(page.data.content[Len(page.data.content) + 1 - k], page.data, fmt)],
       <<"\n      ">>)

\* page.data.content.map(i => generate...JSX(i, page.data)).join("\n      ")
PageJsx(page, fmt) ==
  Join([k \in 1..Len(page.data.content) |-> EmitJSX(page.data.content[k], page.data, fmt)],
       <<"\n      ">>)

RECURSIVE EmitterZones(_, _, _)
\* the zone keys either emitter resolves while it emits the items: for each
\* Section it gets to, the keys `${puckId}:col-${i}` for i below props.columns || 1
EmitterZones(items, data, depth) ==
  IF depth > MaxStack THEN {}
  ELSE UNION { IF items[k].type = "Section" /\ Has(items[k], "props")
               THEN UNION { { ZoneKey(items[k], i - 1) }
                              \cup EmitterZones(ZoneItems(data, ZoneKey(items[k], i - 1)),
                                                data, depth + 1) :
                            i \in 1..ColCount(items[k].props) }
               ELSE {} : k \in 1..Len(items) }

\* code.trim() of the shadcn branch (the template starts with a line break,
\* which trim() removes, and ends with "}")
ShadcnCode(page) ==
  LET used == UsedOnPage(page) IN
  IF ~used.ok THEN << RangeErr >>
  ELSE <<"import React from 'react';\nimport { AlertCircle } from \"lucide-react\";\n">>
         \o ImportStr(used.used)
         \o <<"\n\nexport default function ">> \o FunctionName(PageName(page))
         \o Fill(ShadcnRootOpen, PageProps(page))
         \o PageJsx(page, "shadcn")
         \o <<"\n      </div>\n    </div>\n  );\n}">>

\* code.trim() of the bootstrap branch
BootstrapCode(page) ==
  LET pageProps == PageProps(page) IN
  <<"import React from 'react';\nimport 'bootstrap/dist/css/bootstrap.min.css';\nimport 'bootstrap/dist/js/bootstrap.bundle.min.js';\n\nexport default function ">>
    \o FunctionName(PageName(page))
    \o Fill(BootstrapRootOpen, pageProps)
    \o << IF Has(pageProps, "maxWidth") /\ pageProps.maxWidth = S_max_w_full
          THEN "container-fluid" ELSE "container" >>
    \o <<"\">\n        ">>
    \o PageJsx(page, "bootstrap")
    \o <<"\n      </div>\n    </div>\n  );\n}">>

PageCode(page, fmt) == IF fmt = "shadcn" THEN ShadcnCode(page) ELSE BootstrapCode(page)

\* the path of the page file inside the archive
PagePath(page) == <<"src/pages/">> \o PageName(page) \o <<".tsx">>

ReadmePath == <<"README.md">>

\* JSZip.file(path, text): add the file or replace the file of that path
ZipFile(z, path, text) ==
  [p \in DOMAIN z \cup {path} |-> IF p = path THEN text ELSE z[p]]

\* Array.from(allUsedComponents).map(c => SHADCN_COMPONENT_MAP[c]?.cli).filter(Boolean)
CliNames(allUsed) ==
  LET cli(c) == IF c \in ShadcnMapTypes THEN SHADCN_COMPONENT_MAP(c).cli ELSE ""
  IN SelectSeq([k \in 1..Len(allUsed) |-> cli(allUsed[k])], LAMBDA x : x # "")

\* the text of README.md
Readme(fmt, allUsed) ==
  IF fmt = "shadcn"
  THEN <<"# Generated Site (Shadcn)\n\nRun this to install dependencies:\n",
         Backtick, Backtick, Backtick, "bash\n", "npx shadcn@latest add ">>
         \o Join([k \in 1..Len(CliNames(allUsed)) |-> << CliNames(allUsed)[k] >>], <<" ">>)
         \o <<"\n", Backtick, Backtick, Backtick>>
  ELSE <<"# Generated Site (Bootstrap)\n\nRun this to install dependencies:\n",
         Backtick, Backtick, Backtick, "bash\n", "npm install bootstrap", "\n",
         Backtick, Backtick, Backtick>>

\* ------------------------------------------------------------------------
\* Documents the model exports
\* ------------------------------------------------------------------------
Str_a == << "a" >>

Str_red == << "r", "e", "d" >>

Str_quote == << "a", "\"", "<" >>

Str_apos == << "'", "}" >>

Id_s1 == << "s", "1" >>

Id_s2 == << "s", "2" >>

Node(type, props) == [type |-> type, props |-> props]

WithId(node, id) == [f \in DOMAIN node \cup {"readOnly"} |->
                       IF f = "readOnly" THEN [puckId |-> id] ELSE node[f]]

CardNode(t) == Node("Card", [title |-> t, description |-> Str_a, content |-> Str_a, footer |-> <<>>])

BadgeNode(t) == Node("Badge", [text |-> t, variant |-> S_default])

InputNode == Node("Input", [type |-> Str_a, placeholder |-> Str_a, label |-> Str_a])

ButtonNode(t) ==
  Node("Button", [text |-> Str_a, variant |-> S_outline, size |-> S_sm,
                  actionType |-> S_alert, actionTarget |-> t])

AlertNode == Node("Alert", [title |-> Str_a, description |-> Str_a, variant |-> S_destructive])

ProgressNode == Node("Progress", [value |-> 50, label |-> Str_a])

SeparatorNode == Node("Separator", [orientation |-> S_vertical])

AccordionNode == Node("Accordion", [items |-> << [title |-> Str_a, content |-> Str_red] >>])

\* a node of a type no emitter and no import table knows
TabsNode == Node("Tabs", [defaultValue |-> Str_a])

\* a node of a type the import table knows and no emitter handles
LabelNode == Node("Label", [text |-> Str_a])

\* a node of a known type without its props record
CardNoProps == [type |-> "Card"]

SectionProps(n) ==
  [columns |-> n, gap |-> 24, paddingY |-> 64, bgColor |-> Str_red, sectionTitle |-> Str_a]

\* the Section nodes: with and without readOnly.puckId, 1..MaxCols columns
SectionNodes ==
  { WithId(Node("Section", SectionProps(n)), Id_s1) : n \in 1..MaxCols }
    \cup { Node("Section", SectionProps(n)) : n \in 1..MaxCols }

InnerSection == WithId(Node("Section", SectionProps(1)), Id_s2)

ColKey(id, i) == id \o <<":", "c", "o", "l", "-">> \o NumStr(i)

\* the zone keys a page of the structure family may have, each with the
\* item sequences it may hold, in insertion order
ZoneChoices ==
  << [key |-> ColKey(Id_s1, 0), opts |-> { << CardNode(Str_a) >>, << InnerSection, BadgeNode(Str_a) >> }],
     [key |-> ColKey(Id_s2, 0), opts |-> { << AlertNode >> }],
     [key |-> ColKey(Undefined, 0), opts |-> { << ButtonNode(Str_a) >> }] >>
  \o [i \in 1..(MaxCols - 1) |->
        [key |-> ColKey(Id_s1, i),
         opts |-> IF i = 1 THEN { << InputNode >>, <<>> } ELSE { << SeparatorNode, ProgressNode >> }]]

RECURSIVE ZoneMaps(_)
\* every zone map that has, for each key of the choices, no entry or one of
\* its item sequences
ZoneMaps(choices) ==
  IF choices = <<>> THEN { <<>> }
  ELSE LET rest == ZoneMaps(Tail(choices)) IN
       rest \cup { << [key |-> Head(choices).key, items |-> it] >> \o z :
                     it \in Head(choices).opts, z \in rest }

RootProps(title) == [pageTitle |-> title, pageRoute |-> <<"/">>, canvasColor |-> Str_red,
                     maxWidth |-> S_max_w_full]

S_Home == << "H", "o", "m", "e" >>

S_home == << "h", "o", "m", "e" >>

S_bang == << "!", "!" >>

\* pages of one Section and its zones
StructurePages ==
  { [id |-> "p", data |-> [root |-> [props |-> RootProps(S_Home)], content |-> << s >>, zones |-> z]] :
      s \in SectionNodes, z \in ZoneMaps(ZoneChoices) }
  \cup { [id |-> "p", data |-> [root |-> [props |-> RootProps(S_Home)], content |-> << s >>]] :
           s \in SectionNodes }

\* the root objects of the pages of the titles family: without props (the
\* editor's initial data), and with the titles below
TitleRoots ==
  { [none |-> TRUE] } \cup { [props |-> RootProps(t)] : t \in { <<>>, S_Home, S_home, S_bang } }

TitleContents == { << BadgeNode(Str_a) >>, << TabsNode, InputNode >>, << CardNoProps >> }

\* every root with a Badge, and every content under the title Home
TitlePages ==
  { [id |-> "p", data |-> [root |-> r, content |-> << BadgeNode(Str_a) >>, zones |-> <<>>]] :
      r \in TitleRoots }
  \cup { [id |-> "p", data |-> [root |-> [props |-> RootProps(S_Home)], content |-> c,
                                 zones |-> <<>>]] : c \in TitleContents }

\* pages of one leaf node whose props hold quote and delimiter characters
PropPages ==
  { [id |-> "p", data |-> [root |-> [props |-> [RootProps(S_Home) EXCEPT !.canvasColor = c]],
                           content |-> << n >>, zones |-> <<>>]] :
      c \in { Str_red, Str_apos },
      n \in { CardNode(Str_quote), BadgeNode(Str_quote), ButtonNode(Str_quote),
              BadgeNode(Str_a), AccordionNode, SeparatorNode, ProgressNode, AlertNode } }

Id_t1 == << "t", "1" >>

\* pages with a node of a type the emitters do not handle: a Label next to
\* a Badge, and a Tabs node that has an id and a zone of its own
UnhandledPages ==
  { [id |-> "p", data |-> [root |-> [props |-> RootProps(S_Home)],
                           content |-> << BadgeNode(Str_a), LabelNode >>, zones |-> <<>>]],
    [id |-> "p", data |-> [root |-> [props |-> RootProps(S_Home)],
                           content |-> << WithId(TabsNode, Id_t1), CardNode(Str_a) >>,
                           zones |-> << [key |-> ColKey(Id_t1, 0), items |-> << SeparatorNode >>] >>]] }

\* ------------------------------------------------------------------------
\* The component schema: defaultProps of each component of the editor
\* ------------------------------------------------------------------------
S_transparent == << "t", "r", "a", "n", "s", "p", "a", "r", "e", "n", "t" >>

S_horizontal == << "h", "o", "r", "i", "z", "o", "n", "t", "a", "l" >>

S_none == << "n", "o", "n", "e" >>

DefaultProps(type) ==
  CASE type = "Section" ->
         [sectionTitle |-> << "N", "e", "w", " ", "S", "e", "c", "t", "i", "o", "n" >>, columns |-> 1, gap |-> 24, paddingY |-> 64,
          bgColor |-> S_transparent]
    [] type = "Card" ->
         [title |-> << "T", "i", "t", "l", "e" >>, description |-> << "S", "u", "b", "t", "i", "t", "l", "e" >>,
          content |-> << "M", "a", "i", "n", " ", "b", "o", "d", "y", " ", "t", "e", "x", "t", ".", ".", "." >>,
          footer |-> <<>>]
    [] type = "Button" ->
         [text |-> << "A", "c", "t", "i", "o", "n", " ", "B", "u", "t", "t", "o", "n" >>,
          variant |-> S_default, size |-> S_default, actionType |-> S_none, actionTarget |-> <<>>]
    [] type = "Input" ->
         [placeholder |-> << "n", "a", "m", "e", "@", "e", "x", "a", "m", "p", "l", "e", ".", "c", "o", "m" >>,
          label |-> << "E", "m", "a", "i", "l" >>, type |-> << "e", "m", "a", "i", "l" >>]
    [] type = "Accordion" ->
         [items |-> << [title |-> << "H", "e", "l", "p", "f", "u", "l", " ", "T", "i", "p" >>,
                        content |-> << "D", "e", "t", "a", "i", "l", "e", "d", " ", "i", "n", "f", "o", " ", "h", "e", "r", "e", "." >>] >>]
    [] type = "Separator" -> [orientation |-> S_horizontal]
    [] type = "Badge" -> [text |-> << "B", "a", "d", "g", "e" >>, variant |-> S_default]
    [] type = "Alert" ->
         [title |-> << "H", "e", "a", "d", "s", " ", "u", "p", "!" >>,
          description |-> << "A", "d", "d", " ", "a", " ", "d", "e", "s", "c", "r", "i", "p", "t", "i", "o", "n", "." >>,
          variant |-> S_default]
    [] type = "Progress" ->
         [value |-> 50, label |-> << "S", "e", "t", "u", "p", " ", "P", "r", "o", "g", "r", "e", "s", "s" >>]

\* the object without its field f
Without(obj, f) == [g \in DOMAIN obj \ { f } |-> obj[g]]

\* pages of one node that lacks one prop field of its type
SparsePages ==
  { [id |-> "p", data |-> [root |-> [props |-> RootProps(S_Home)],
                           content |-> << [n EXCEPT !.props = Without(n.props, f)] >>,
                           zones |-> <<>>]] :
      n \in { Node("Section", DefaultProps("Section")), Node("Accordion", DefaultProps("Accordion")),
              Node("Button", DefaultProps("Button")), Node("Card", DefaultProps("Card")) },
      f \in { "columns", "gap", "bgColor", "items", "size", "footer" } }

\* a page whose root props have no pageTitle
UntitledPages ==
  { [id |-> "p", data |-> [root |-> [props |-> Without(RootProps(S_Home), "pageTitle")],
                           content |-> << BadgeNode(Str_a) >>, zones |-> <<>>]] }

Id_s == << "s" >>

\* pages where the id of one node is a prefix of the id of another: two
\* Sections at the root, and a Card inside the zone of the Section
PrefixPages ==
  { [id |-> "p", data |-> [root |-> [props |-> RootProps(S_Home)],
                           content |-> << WithId(Node("Section", SectionProps(1)), Id_s),
                                          WithId(Node("Section", SectionProps(1)), Id_s1) >>,
                           zones |-> << [key |-> ColKey(Id_s, 0), items |-> << BadgeNode(Str_a) >>],
                                        [key |-> ColKey(Id_s1, 0), items |-> << CardNode(Str_a) >>] >>]],
    [id |-> "p", data |-> [root |-> [props |-> RootProps(S_Home)],
                           content |-> << WithId(Node("Section", SectionProps(1)), Id_s1) >>,
                           zones |-> << [key |-> ColKey(Id_s1, 0),
                                         items |-> << WithId(CardNode(Str_a), Id_s) >>] >>]] }

\* the column counts the number field of the editor takes beyond 1..MaxCols:
\* zero, and counts above 6 and above 12
WideCounts == { 0, 7, 13 }

\* pages of one Section whose props.columns is such a count
ColumnPages ==
  { [id |-> "p", data |-> [root |-> [props |-> RootProps(S_Home)],
                           content |-> << WithId(Node("Section", SectionProps(n)), Id_s1) >>,
                           zones |-> << [key |-> ColKey(Id_s1, 0), items |-> << BadgeNode(Str_a) >>] >>]] :
      n \in WideCounts }

S_1a == << "1", "a" >>

S_A_b == << "A", " ", "b" >>

\* pages whose title starts with a digit, and has a capital and a space
MixedTitlePages ==
  { [id |-> "p", data |-> [root |-> [props |-> RootProps(t)],
                           content |-> << BadgeNode(Str_a) >>, zones |-> <<>>]] :
      t \in { S_1a, S_A_b } }

\* a page of three root nodes, the second a Section of two columns with
\* two children in each
OrderPages ==
  { [id |-> "p", data |-> [root |-> [props |-> RootProps(S_Home)],
                           content |-> << BadgeNode(Str_a),
                                          WithId(Node("Section", SectionProps(2)), Id_s1),
                                          SeparatorNode >>,
                           zones |-> << [key |-> ColKey(Id_s1, 0),
                                         items |-> << CardNode(Str_red), BadgeNode(Str_red) >>],
                                        [key |-> ColKey(Id_s1, 1),
                                         items |-> << AlertNode, ProgressNode >>] >>]] }

\* pages with the types that need a Label: an Input, a Progress and a Label
\* node together, and an Input in the zone of a Section without puckId
CompanionPages ==
  { [id |-> "p", data |-> [root |-> [props |-> RootProps(S_Home)],
                           content |-> << InputNode, ProgressNode, LabelNode >>, zones |-> <<>>]],
    [id |-> "p", data |-> [root |-> [props |-> RootProps(S_Home)],
                           content |-> << Node("Section", SectionProps(1)) >>,
                           zones |-> << [key |-> ColKey(Undefined, 0), items |-> << InputNode >>] >>]] }

RECURSIVE SeqsUpTo(_, _)
\* the non-empty sequences over S of length at most n
SeqsUpTo(S, n) ==
  IF n = 0 THEN {}
  ELSE LET shorter == SeqsUpTo(S, n - 1) IN
       { << x >> : x \in S } \cup { Append(q, x) : q \in shorter, x \in S }

\* the documents: one page of the single-page families, or up to MaxPages
\* pages of the titles family
Documents ==
  { << pg >> : pg \in StructurePages \cup PropPages \cup UnhandledPages \cup SparsePages
                       \cup UntitledPages \cup OrderPages \cup CompanionPages
                       \cup MixedTitlePages \cup PrefixPages \cup ColumnPages }
    \cup SeqsUpTo(TitlePages, MaxPages)

Formats == { "shadcn", "bootstrap" }

\* ------------------------------------------------------------------------
\* The export as a state machine
\* ------------------------------------------------------------------------

EmptyZip == [p \in {} |-> <<>>]

NoRun == [zip |-> EmptyZip, code |-> <<>>, pageNames |-> <<>>, pc |-> "none", error |-> "none"]

Init ==
  /\ pages \in Documents
  /\ format \in Formats
  /\ pageIdx = 1
  /\ zip = EmptyZip
  /\ allUsedComponents = <<>>
  /\ code = <<>>
  /\ pageNames = <<>>
  /\ pc = "forEach"
  /\ error = "none"
  /\ saved = <<>>
  /\ run = 1
  /\ prev = NoRun
  /\ pagesFolder \in BOOLEAN
  /\ snapshot = pages
  /\ pending = <<>>

\* the error a page's code stands for, "none" when the page compiled
ErrorOf(text) ==
  IF TypeErr \in Range(text) THEN "TypeError"
  ELSE IF RangeErr \in Range(text) THEN "RangeError"
  ELSE "none"

\* the shadcn page text with the import declarations of the types in allUsed
ShadcnCode_SharedImports(page, allUsed) ==
  IF ~UsedOnPage(page).ok THEN << RangeErr >>
  ELSE <<"import React from 'react';\nimport { AlertCircle } from \"lucide-react\";\n">>
         \o ImportStr(allUsed)
         \o <<"\n\nexport default function ">> \o FunctionName(PageName(page))
         \o Fill(ShadcnRootOpen, PageProps(page))
         \o PageJsx(page, "shadcn")
         \o <<"\n      </div>\n    </div>\n  );\n}">>

\* mutant of CompilePage: the imports of a page are taken from the Set that
\* is shared by all pages, allUsedComponents
CompilePage_SharedImports ==
  /\ pc = "forEach"
  /\ pageIdx <= Len(pages)
  /\ LET page == pages[pageIdx]
         used == UsedOnPage(page).used
         add[k \in 0..Len(used)] ==
           IF k = 0 THEN allUsedComponents ELSE SetAdd(add[k - 1], used[k])
         text == IF format = "shadcn" THEN ShadcnCode_SharedImports(page, add[Len(used)])
                 ELSE BootstrapCode(page)
     IN IF Threw(text)
        THEN /\ pc' = "rejected"
             /\ error' = ErrorOf(text)
             /\ UNCHANGED << pageIdx, zip, allUsedComponents, code, pageNames >>
        ELSE /\ zip' = IF pagesFolder THEN ZipFile(zip, PagePath(page), text) ELSE zip
             /\ code' = Append(code, text)
             /\ pageNames' = Append(pageNames, PageName(page))
             /\ allUsedComponents' = IF format = "shadcn" THEN add[Len(used)]
                                     ELSE allUsedComponents
             /\ pageIdx' = pageIdx + 1
             /\ UNCHANGED << pc, error >>
  /\ UNCHANGED << pages, format, saved, run, prev, pagesFolder, snapshot, pending >>

\* mutant of CompilePage: the iteration stores the props object it read, or
\* an empty one, back into the root of the page
CompilePage_FillsRoot ==
  /\ pc = "forEach"
  /\ pageIdx <= Len(pages)
  /\ LET page == pages[pageIdx]
         text == PageCode(page, format)
     IN /\ pages' = [pages EXCEPT ![pageIdx].data.root = [props |-> PageProps(page)]]
        /\ IF Threw(text)
           THEN /\ pc' = "rejected"
                /\ error' = ErrorOf(text)
                /\ UNCHANGED << pageIdx, zip, allUsedComponents, code, pageNames >>
           ELSE /\ zip' = IF pagesFolder THEN ZipFile(zip, PagePath(page), text) ELSE zip
                /\ code' = Append(code, text)
                /\ pageNames' = Append(pageNames, PageName(page))
                /\ allUsedComponents' =
                     IF format = "shadcn"
                     THEN LET used == UsedOnPage(page).used
                              add[k \in 0..Len(used)] ==
                                IF k = 0 THEN allUsedComponents ELSE SetAdd(add[k - 1], used[k])
                          IN add[Len(used)]
                     ELSE allUsedComponents
                /\ pageIdx' = pageIdx + 1
                /\ UNCHANGED << pc, error >>
  /\ UNCHANGED << format, saved, run, prev, pagesFolder, snapshot, pending >>

\* one iteration of pages.forEach((page) => { ... }); the optional chaining
\* zip.folder("src")?.folder("pages")?.file(...) skips the write when a
\* folder is null
CompilePage ==
  /\ pc = "forEach"
  /\ pageIdx <= Len(pages)
  /\ LET page == pages[pageIdx]
         text == PageCode(page, format)
     IN IF Threw(text)
        THEN /\ pc' = "rejected"
             /\ error' = ErrorOf(text)
             /\ UNCHANGED << pageIdx, zip, allUsedComponents, code, pageNames >>
        ELSE /\ zip' = IF pagesFolder THEN ZipFile(zip, PagePath(page), text) ELSE zip
             /\ code' = Append(code, text)
             /\ pageNames' = Append(pageNames, PageName(page))
             /\ allUsedComponents' =
                  IF format = "shadcn"
                  THEN LET used == UsedOnPage(page).used
                           add[k \in 0..Len(used)] ==
                             IF k = 0 THEN allUsedComponents ELSE SetAdd(add[k - 1], used[k])
                       IN add[Len(used)]
                  ELSE allUsedComponents
             /\ pageIdx' = pageIdx + 1
             /\ UNCHANGED << pc, error >>
  /\ UNCHANGED << pages, format, saved, run, prev, pagesFolder, snapshot, pending >>

\* README Generation, then the call of zip.generateAsync
WriteReadme ==
  /\ pc = "forEach"
  /\ pageIdx > Len(pages)
  /\ zip' = ZipFile(zip, ReadmePath, Readme(format, allUsedComponents))
  /\ pc' = "generateAsync"
  /\ UNCHANGED << pages, format, pageIdx, allUsedComponents, code, pageNames, error, saved,
                  run, prev, pagesFolder, snapshot, pending >>

\* the archive saveProject(pgs, fmt) builds when no page throws: the page
\* files in the order of the pages, then README.md
ArchiveOf(pgs, fmt) ==
  LET files[k \in 0..Len(pgs)] ==
        IF k = 0 THEN EmptyZip
        ELSE IF pagesFolder THEN ZipFile(files[k - 1], PagePath(pgs[k]), PageCode(pgs[k], fmt))
        ELSE files[k - 1]
      used[k \in 0..Len(pgs)] ==
        IF k = 0 THEN <<>>
        ELSE LET u == UsedOnPage(pgs[k]).used
                 add[j \in 0..Len(u)] == IF j = 0 THEN used[k - 1] ELSE SetAdd(add[j - 1], u[j])
             IN add[Len(u)]
  IN ZipFile(files[Len(pgs)], ReadmePath,
             Readme(fmt, IF fmt = "shadcn" THEN used[Len(pgs)] ELSE <<>>))

\* mutant of GenerateResolve: the archive is built from the pages as they
\* are when generateAsync resolves
GenerateResolve_LateRead ==
  /\ pc = "generateAsync"
  /\ saved' = Append(saved, [content |-> ArchiveOf(pages, format),
                             name |-> << format, "-project-export.zip" >>])
  /\ pc' = "done"
  /\ UNCHANGED << pages, format, pageIdx, zip, allUsedComponents, code, pageNames, error,
                  run, prev, pagesFolder, snapshot, pending >>

\* generateAsync resolves: saveAs(content, `${format}-project-export.zip`)
GenerateResolve ==
  /\ pc = "generateAsync"
  /\ saved' = Append(saved, [content |-> zip, name |-> << format, "-project-export.zip" >>])
  /\ pc' = "done"
  /\ UNCHANGED << pages, format, pageIdx, zip, allUsedComponents, code, pageNames, error,
                  run, prev, pagesFolder, snapshot, pending >>

\* mutant of GenerateReject: the failure is swallowed and the archive is
\* offered all the same
GenerateReject_StillSaves ==
  /\ pc = "generateAsync"
  /\ pc' = "rejected"
  /\ error' = "generateAsync"
  /\ saved' = Append(saved, [content |-> zip, name |-> << format, "-project-export.zip" >>])
  /\ UNCHANGED << pages, format, pageIdx, zip, allUsedComponents, code, pageNames,
                  run, prev, pagesFolder, snapshot, pending >>

\* generateAsync rejects: the await throws and saveProject rejects
GenerateReject ==
  /\ pc = "generateAsync"
  /\ pc' = "rejected"
  /\ error' = "generateAsync"
  /\ UNCHANGED << pages, format, pageIdx, zip, allUsedComponents, code, pageNames, saved,
                  run, prev, pagesFolder, snapshot, pending >>

\* saveProject is called again with the same arguments
CallAgain ==
  /\ pc \in { "done", "rejected" }
  /\ run = 1
  /\ prev' = [zip |-> zip, code |-> code, pageNames |-> pageNames, pc |-> pc, error |-> error]
  /\ run' = run + 1
  /\ pageIdx' = 1
  /\ zip' = EmptyZip
  /\ allUsedComponents' = <<>>
  /\ code' = <<>>
  /\ pageNames' = <<>>
  /\ pc' = "forEach"
  /\ error' = "none"
  /\ UNCHANGED << pages, format, saved, pagesFolder, snapshot, pending >>

Next ==
  \/ CompilePage
  \/ WriteReadme
  \/ GenerateResolve
  \/ GenerateReject
  \/ CallAgain

Spec == Init /\ [][Next]_vars

\* ------------------------------------------------------------------------
\* saveProject beside the editor: the pages are edited and a second export
\* is started while generateAsync is pending.  The sync part of a call runs
\* to its await without interruption (one thread), so the editor and the
\* continuations of other calls run only when pc is not "forEach".
\* ------------------------------------------------------------------------
\* the documents of the editor: one page, the page with another content, the
\* page and a second page, and a page that has a node without props
SnapshotDocuments ==
  LET page(t, c) == [id |-> "p", data |-> [root |-> [props |-> RootProps(t)], content |-> c,
                                           zones |-> <<>>]]
  IN { << page(S_Home, << BadgeNode(Str_a) >>) >>,
       << page(S_Home, << TabsNode, InputNode >>) >>,
       << page(S_Home, << BadgeNode(Str_a) >>), page(S_bang, << BadgeNode(Str_a) >>) >>,
       << page(S_Home, << CardNoProps >>) >> }

InitSnapshot ==
  /\ pages \in SnapshotDocuments
  /\ format \in Formats
  /\ pageIdx = 1
  /\ zip = EmptyZip
  /\ allUsedComponents = <<>>
  /\ code = <<>>
  /\ pageNames = <<>>
  /\ pc = "forEach"
  /\ error = "none"
  /\ saved = <<>>
  /\ run = 1
  /\ prev = NoRun
  /\ pagesFolder = TRUE
  /\ snapshot = pages
  /\ pending = <<>>

\* the editor replaces the pages array, or the data of a page, while no
\* sync part of saveProject runs
EditorEdit ==
  /\ pc # "forEach"
  /\ pages' \in SnapshotDocuments \ { pages }
  /\ UNCHANGED << format, pageIdx, zip, allUsedComponents, code, pageNames, pc, error, saved,
                  run, prev, pagesFolder, snapshot, pending >>

\* onPublish calls saveProject while the call in hand awaits generateAsync:
\* that call is set aside with its own zip, and the new call starts with a
\* new JSZip and a new Set, on the pages as they are now
StartConcurrent ==
  /\ pc = "generateAsync"
  /\ run <= MaxPending
  /\ run' = run + 1
  /\ pending' = Append(pending, [zip |-> zip, format |-> format, snapshot |-> snapshot])
  /\ format' \in Formats
  /\ snapshot' = pages
  /\ pageIdx' = 1
  /\ zip' = EmptyZip
  /\ allUsedComponents' = <<>>
  /\ code' = <<>>
  /\ pageNames' = <<>>
  /\ pc' = "forEach"
  /\ UNCHANGED << pages, error, saved, prev, pagesFolder >>

\* generateAsync of a call set aside resolves: saveAs of its own content
ResolvePending ==
  /\ pc # "forEach"
  /\ pending # <<>>
  /\ saved' = Append(saved, [content |-> Head(pending).zip,
                             name |-> << Head(pending).format, "-project-export.zip" >>])
  /\ pending' = Tail(pending)
  /\ UNCHANGED << pages, format, pageIdx, zip, allUsedComponents, code, pageNames, pc, error,
                  run, prev, pagesFolder, snapshot >>

\* generateAsync of a call set aside rejects: nothing is saved
RejectPending ==
  /\ pc # "forEach"
  /\ pending # <<>>
  /\ pending' = Tail(pending)
  /\ UNCHANGED << pages, format, pageIdx, zip, allUsedComponents, code, pageNames, pc, error,
                  saved, run, prev, pagesFolder, snapshot >>

NextSnapshot ==
  \/ CompilePage
  \/ WriteReadme
  \/ GenerateResolve
  \/ GenerateReject
  \/ EditorEdit
  \/ StartConcurrent
  \/ ResolvePending
  \/ RejectPending

SpecSnapshot == InitSnapshot /\ [][NextSnapshot]_vars

\* ------------------------------------------------------------------------
\* The document tree the properties speak of
\* ------------------------------------------------------------------------
\* the column count N of a Section: its prop columns (0 when it has none)
Columns(n) ==
  IF Has(n, "props") /\ Has(n.props, "columns") THEN n.props.columns ELSE 0

\* the zones '<nodeId>:col-i', i in 0..N-1, of a Section with N columns
DeclaredZones(n) ==
  IF n.type = "Section" THEN { ColKey(PuckIdStr(n), i) : i \in 0..(Columns(n) - 1) } ELSE {}

RECURSIVE TreeNodes(_, _, _)
\* the nodes of the items and of the zones reachable from them
TreeNodes(items, data, depth) ==
  IF depth > MaxStack THEN {}
  ELSE Range(items)
         \cup UNION { TreeNodes(ZoneItems(data, key), data, depth + 1) :
                      key \in UNION { DeclaredZones(n) : n \in Range(items) } }

\* the nodes of the page's reachable zone tree
PageTree(page) == TreeNodes(page.data.content, page.data, 1)

\* the keys of the page's zone map
ZoneKeys(data) ==
  IF Has(data, "zones") THEN { data.zones[k].key : k \in 1..Len(data.zones) } ELSE {}

\* the sync part of saveProject has run to its end: every file is in zip
Built == pc \in { "generateAsync", "done" } \/ (pc = "rejected" /\ error = "generateAsync")

\* ------------------------------------------------------------------------
\* C1
\* ------------------------------------------------------------------------
\* C1: multi-zone completeness.  In every compiled page file, for both
\* targets, the markup of every child stored in each zone '<nodeId>:col-i',
\* i in 0..N-1, of every Section of the page's tree with N >= 1 columns
\* occurs in the file text.
C1_MultiZoneCompleteness ==
  \A k \in 1..Len(code) :
    \A s \in PageTree(pages[k]) :
      \A key \in DeclaredZones(s) :
        \A c \in Range(ZoneItems(pages[k].data, key)) :
          Contains(code[k], EmitJSX(c, pages[k].data, format))

\* a page is exported whose Section has a child with markup in column 1 and
\* another in column 0
C1_Witness ==
  /\ pc = "done"
  /\ \E k \in 1..Len(code) : \E s \in PageTree(pages[k]) :
       /\ s.type = "Section" /\ Columns(s) >= 2
       /\ \A i \in 0..1 :
            \E c \in Range(ZoneItems(pages[k].data, ColKey(PuckIdStr(s), i))) :
              EmitJSX(c, pages[k].data, format) # <<>>

\* ------------------------------------------------------------------------
\* C2
\* ------------------------------------------------------------------------
\* the characters that end a literal of the syntax ctx early
Terminators(ctx) ==
  CASE ctx = "dq"   -> { "\"" }
    [] ctx = "sq"   -> { "'" }
    [] ctx = "text" -> { "<", ">", "{", "}" }
    [] ctx = "expr" -> { "}" }

RECURSIVE ReadBack(_, _, _, _)
\* a reader of the target's syntax that knows the template: it reads text
\* from position pos on, matches the literal chunks and reads each
\* interpolated value up to the first character that ends its literal;
\* the result is the sequence of the values read, in the order of the slots
ReadBack(tpl, text, pos, acc) ==
  IF tpl = <<>> THEN acc
  ELSE IF IsSlot(Head(tpl))
  THEN LET stops == Terminators(Head(tpl).ctx)
                      \cup (IF Len(tpl) > 1 /\ ~IsSlot(tpl[2]) THEN { tpl[2].lit } ELSE {})
           ends == { q \in pos..Len(text) : text[q] \in stops }
           end == IF ends = {} THEN Len(text) + 1
                  ELSE CHOOSE q \in ends : \A r \in ends : q <= r
       IN ReadBack(Tail(tpl), text, end, Append(acc, SubSeq(text, pos, end - 1)))
  ELSE IF pos <= Len(text) /\ text[pos] = Head(tpl).lit
  THEN ReadBack(Tail(tpl), text, pos + 1, acc)
  ELSE Append(acc, << "#syntax error#" >>)

\* the values the template was filled with, in the order of the slots
Interpolated(tpl, props) ==
  LET slots == SelectSeq(tpl, IsSlot)
  IN [k \in 1..Len(slots) |-> Interp(props, slots[k].slot)]

\* the node types whose whole markup is one template literal of props
ReaderTypes(fmt) ==
  IF fmt = "shadcn"
  THEN { "Card", "Button", "Badge", "Separator", "Alert", "Progress", "Input" }
  ELSE { "Card", "Input", "Progress" }

\* the template literal the emitter of the format fills for the node
ReaderTemplate(n, fmt) ==
  IF fmt = "shadcn"
  THEN CASE n.type = "Card" ->
              ShadcnCard \o (IF Truthy(n.props, "footer") THEN ShadcnCardFooter ELSE <<>>)
                \o << Lit("</Card>") >>
         [] n.type = "Button" ->
              ShadcnButtonOpen \o OnClickTemplate(n.props) \o ShadcnButtonClose
         [] n.type = "Badge" -> ShadcnBadge
         [] n.type = "Separator" -> ShadcnSeparator
         [] n.type = "Alert" -> ShadcnAlert
         [] n.type = "Progress" -> ShadcnProgress
         [] n.type = "Input" -> ShadcnInput
  ELSE CASE n.type = "Card" ->
              BootstrapCard \o (IF Truthy(n.props, "footer") THEN BootstrapCardFooter ELSE <<>>)
                \o << Lit("\n        </div>") >>
         [] n.type = "Input" -> BootstrapInput
         [] n.type = "Progress" -> BootstrapProgress

\* the template literal of the page function around ${jsx}
RootTemplate(fmt) == IF fmt = "shadcn" THEN ShadcnRootOpen ELSE BootstrapRootOpen

\* C2: escaping.  In every compiled page file, every prop value of a root
\* node and every root prop of the page, read back from the file by a reader
\* of the target's syntax, equals the value that was interpolated: no quote
\* or delimiter character of a value ends its literal early.
C2_Escaping ==
  \A k \in 1..Len(code) :
    /\ \A n \in Range(pages[k].data.content) :
         (n.type \in ReaderTypes(format) /\ Has(n, "props")) =>
           \A at \in Occurrences(EmitJSX(n, pages[k].data, format), code[k]) :
             ReadBack(ReaderTemplate(n, format), code[k], at, <<>>)
               = Interpolated(ReaderTemplate(n, format), n.props)
    /\ \A at \in Occurrences(<< RootTemplate(format)[1].lit >>, code[k]) :
         ReadBack(RootTemplate(format), code[k], at, <<>>)
           = Interpolated(RootTemplate(format), PageProps(pages[k]))

\* ------------------------------------------------------------------------
\* C3
\* ------------------------------------------------------------------------
\* the page files of an archive
PageFiles(z) == { p \in DOMAIN z : p[1] = "src/pages/" }

\* C3: archive completeness.  The archive handed to saveAs holds exactly
\* Len(pages) page files under src/pages and the one manifest README.md.
C3_ArchiveCompleteness ==
  pc = "done" =>
    LET archive == saved[Len(saved)].content IN
    /\ Cardinality(PageFiles(archive)) = Len(pages)
    /\ DOMAIN archive \ PageFiles(archive) = { ReadmePath }

\* ------------------------------------------------------------------------
\* C4
\* ------------------------------------------------------------------------
\* the types that SHADCN_COMPONENT_MAP gives an import declaration
ImportedTypes == { t \in ShadcnMapTypes : SHADCN_COMPONENT_MAP(t).path # "" }

\* C4: round-trip type coverage.  In every page file compiled for shadcn,
\* the import declaration of every type of a node of the page's reachable
\* zone tree occurs exactly once.
C4_ImportCoverage ==
  format = "shadcn" =>
    \A k \in 1..Len(code) :
      \A n \in PageTree(pages[k]) :
        n.type \in ImportedTypes =>
          Cardinality(Occurrences(ImportLine(n.type), code[k])) = 1

\* ------------------------------------------------------------------------
\* C5
\* ------------------------------------------------------------------------
\* C5: the dependency traversal uses the emitter's zone-resolution rule.
\* For every page compiled for shadcn, the zones of the zone map findUsed
\* descends into are the zones of the zone map the emitter descends into.
C5_SameZoneResolution ==
  format = "shadcn" =>
    \A k \in 1..Len(code) :
      UsedOnPage(pages[k]).visited
        = EmitterZones(pages[k].data.content, pages[k].data, 1) \cap ZoneKeys(pages[k].data)

\* ------------------------------------------------------------------------
\* C6
\* ------------------------------------------------------------------------
\* the page has a title that is empty or has no alphanumeric character
BlankTitle(page) ==
  /\ Has(page.data.root, "props")
  /\ Has(page.data.root.props, "pageTitle")
  /\ \A c \in Range(page.data.root.props.pageTitle) : ~IsAlnum(c)

\* C6: identifier fallback.  A compiled page whose title is empty or has
\* only non-alphanumeric characters has the identifier 'untitled' and is
\* written as src/pages/untitled.tsx (where the pages folder takes files).
C6_IdentifierFallback ==
  \A k \in 1..Len(code) :
    BlankTitle(pages[k]) =>
      /\ pageNames[k] = S_untitled
      /\ pagesFolder => << "src/pages/" >> \o S_untitled \o << ".tsx" >> \in DOMAIN zip

\* ------------------------------------------------------------------------
\* C7
\* ------------------------------------------------------------------------
\* C7: a single malformed node never aborts an export.  saveProject never
\* rejects with the TypeError of a node read without its props record.
C7_MalformedNodeNeverAborts ==
  pc = "rejected" => error # "TypeError"

\* ------------------------------------------------------------------------
\* C8
\* ------------------------------------------------------------------------
\* the import declarations of a shadcn page file: the text between its two
\* fixed imports and the page function
ImportBlock(text) ==
  LET ends == { q \in 1..Len(text) : text[q] = "\n\nexport default function " }
  IN SubSeq(text, 2, (CHOOSE q \in ends : \A r \in ends : q <= r) - 1)

\* the Set without the type t
WithoutType(set, t) == SelectSeq(set, LAMBDA u : u # t)

\* every node the page's data holds, in its content and in its zones
AllNodes(data) ==
  Range(data.content)
    \cup (IF Has(data, "zones")
          THEN UNION { Range(data.zones[k].items) : k \in 1..Len(data.zones) } ELSE {})

\* a zone of the page holds a node whose id is a prefix of the zone's key
SelfNested(page) ==
  \E k \in 1..Len(page.data.zones) : \E n \in Range(page.data.zones[k].items) :
    HasPuckId(n) /\ n.readOnly.puckId # <<>> /\ startsWith(page.data.zones[k].key, n.readOnly.puckId)

\* the export has thrown only over a node of a known type without props, or
\* over a zone that findUsed enters again from a node inside it
OnlyMalformedNodesThrow ==
  /\ (pc = "rejected" /\ error = "TypeError") =>
       \E n \in AllNodes(pages[pageIdx].data) : n.type \in EmitterCases /\ ~Has(n, "props")
  /\ (pc = "rejected" /\ error = "RangeError") =>
       Has(pages[pageIdx].data, "zones") /\ SelfNested(pages[pageIdx])

\* what the claim about the unhandled node n of page k says of the export
Degrades(k, n) ==
  /\ EmitJSX(n, pages[k].data, format) = <<>>
  /\ format = "shadcn" =>
       ImportBlock(code[k]) = ImportStr(WithoutType(UsedOnPage(pages[k]).used, n.type))
  /\ Built => zip[ReadmePath] = Readme(format, WithoutType(allUsedComponents, n.type))
  /\ \A m \in PageTree(pages[k]) : Contains(code[k], EmitJSX(m, pages[k].data, format))

MissingZones(page) ==
  UNION { DeclaredZones(n) : n \in PageTree(page) } \ ZoneKeys(page.data)

RECURSIVE EmptyEntries(_)
\* an entry with no items for each key of the set
EmptyEntries(keys) ==
  IF keys = {} THEN <<>>
  ELSE LET key == CHOOSE x \in keys : TRUE
       IN << [key |-> key, items |-> <<>>] >> \o EmptyEntries(keys \ { key })

\* the page with an empty entry in its zone map for every missing zone
WithEmptyZones(page) ==
  [id |-> page.id,
   data |-> [f \in DOMAIN page.data \cup { "zones" } |->
               IF f = "zones"
               THEN (IF Has(page.data, "zones") THEN page.data.zones ELSE <<>>)
                      \o EmptyEntries(MissingZones(page))
               ELSE page.data[f]]]

\* C9: missing zones are empty, never an error.  A page whose Sections have
\* no entry for some of their zones, or that has no zone map, compiles to the
\* file text and the used types of the same page with those zones present
\* and empty, and the export throws only over a node without props.
C9_MissingZonesAreEmpty ==
  /\ OnlyMalformedNodesThrow
  /\ \A k \in 1..Len(code) :
       /\ code[k] = PageCode(WithEmptyZones(pages[k]), format)
       /\ UsedOnPage(pages[k]).used = UsedOnPage(WithEmptyZones(pages[k])).used

\* an export is done of a page that has no zone map, and of a page whose
\* Section of two or more columns has an entry for column 0 only
C9_Witness ==
  /\ pc = "done"
  /\ \E k \in 1..Len(code) :
       /\ MissingZones(pages[k]) # {}
       /\ \/ ~Has(pages[k].data, "zones")
          \/ \E s \in PageTree(pages[k]) :
               /\ Columns(s) >= 2
               /\ ColKey(PuckIdStr(s), 0) \in ZoneKeys(pages[k].data)
               /\ ColKey(PuckIdStr(s), 1) \notin ZoneKeys(pages[k].data)

\* ------------------------------------------------------------------------
\* C10
\* ------------------------------------------------------------------------
\* the previous call ran its sync part to the end
PrevBuilt == prev.pc = "done" \/ (prev.pc = "rejected" /\ prev.error = "generateAsync")

WithDefaults(n) ==
  LET d == DefaultProps(n.type) IN
  [n EXCEPT !.props = [f \in DOMAIN n.props \cup DOMAIN d |->
                         IF Has(n.props, f) THEN n.props[f] ELSE d[f]]]

\* C11: default fallback for absent props.  In every compiled page, the
\* markup of every node that has a props record and a type of the schema is
\* the markup of the same node with its absent fields set to the defaults of
\* its type.
C11_DefaultFallback ==
  \A k \in 1..Len(code) :
    \A n \in PageTree(pages[k]) :
      (n.type \in EmitterCases /\ Has(n, "props")) =>
        EmitJSX(n, pages[k].data, format) = EmitJSX(WithDefaults(n), pages[k].data, format)

\* ------------------------------------------------------------------------
\* C12
\* ------------------------------------------------------------------------
\* C12: no partial success.  Every archive handed to saveAs holds the file
\* of every page of the input and the manifest; when the pages folder did
\* not take the page files, saveAs is never called.
C12_NoPartialSuccess ==
  /\ \A i \in 1..Len(saved) :
       /\ \A k \in 1..Len(pages) : PagePath(pages[k]) \in DOMAIN saved[i].content
       /\ ReadmePath \in DOMAIN saved[i].content
  /\ (~pagesFolder /\ pages # <<>>) => saved = <<>>

\* ------------------------------------------------------------------------
\* C13
\* ------------------------------------------------------------------------
\* the calls of saveAs a call of saveProject in the state pc has made
SavesOf(state) == IF state = "done" THEN 1 ELSE 0

\* C13: a packaging failure is a single failure with no download.  A call
\* of saveProject has called saveAs once when generateAsync has resolved,
\* with the archive that was built, and not at all before that or when
\* generateAsync or anything else has made the promise reject.
C13_SingleFailureNoDownload ==
  /\ Len(saved) = SavesOf(prev.pc) + SavesOf(pc)
  /\ pc = "done" => saved[Len(saved)].content = zip

\* the second call has rejected in generateAsync after the first call was
\* done: the one download is that of the first call
C13_Witness ==
  /\ run = 2 /\ prev.pc = "done"
  /\ pc = "rejected" /\ error = "generateAsync"
  /\ Len(saved) = 1

\* ------------------------------------------------------------------------
\* C14
\* ------------------------------------------------------------------------
\* the names the install command of a shadcn README lists, in its order
Listed(readme) == SelectSeq(SubSeq(readme, 7, Len(readme) - 4), LAMBDA x : x # " ")

\* the types findUsed collects on any page of the input
Collected == UNION { Range(UsedOnPage(pages[k]).used) : k \in 1..Len(pages) }

\* the types of SHADCN_COMPONENT_MAP that have a CLI name
CliTypes == { t \in ShadcnMapTypes : SHADCN_COMPONENT_MAP(t).cli # "" }

\* C14: the manifest is the cross-page union.  The install command of the
\* README of a shadcn export lists the CLI name of every type collected on
\* any page once, and no other name.
C14_ManifestIsUnion ==
  (Built /\ format = "shadcn") =>
    LET listed == Listed(zip[ReadmePath]) IN
    /\ \A t \in CliTypes :
         Cardinality({ i \in 1..Len(listed) : listed[i] = SHADCN_COMPONENT_MAP(t).cli })
           = IF t \in Collected THEN 1 ELSE 0
    /\ \A i \in 1..Len(listed) : \E t \in CliTypes : listed[i] = SHADCN_COMPONENT_MAP(t).cli

\* a shadcn export of two pages is done, each page with a type the other
\* has not, one of them with the companion type; the README lists them all
C14_Witness ==
  /\ pc = "done" /\ format = "shadcn" /\ Len(pages) = 2
  /\ "Badge" \in Range(UsedOnPage(pages[1]).used) \ Range(UsedOnPage(pages[2]).used)
  /\ "Input" \in Range(UsedOnPage(pages[2]).used) \ Range(UsedOnPage(pages[1]).used)
  /\ Listed(zip[ReadmePath]) = << "badge", "input", "label" >>

\* ------------------------------------------------------------------------
\* C15
\* ------------------------------------------------------------------------
\* page.data.root.props is absent or has no pageTitle
NoTitle(page) ==
  ~Has(page.data.root, "props") \/ ~Has(page.data.root.props, "pageTitle")

\* C15: a page with no title still compiles.  A compiled page without root
\* props or without pageTitle has the identifier 'untitled' and its file is
\* src/pages/untitled.tsx (where the pages folder takes files); the export
\* throws on such a page only over a node without its props record.
C15_NoTitleCompiles ==
  /\ \A k \in 1..Len(code) :
       NoTitle(pages[k]) =>
         /\ pageNames[k] = S_untitled
         /\ Contains(code[k], FunctionName(S_untitled) \o << RootTemplate(format)[1].lit >>)
         /\ pagesFolder => << "src/pages/" >> \o S_untitled \o << ".tsx" >> \in DOMAIN zip
  /\ (pc = "rejected" /\ error # "generateAsync" /\ NoTitle(pages[pageIdx])) =>
       \E n \in AllNodes(pages[pageIdx].data) : n.type \in EmitterCases /\ ~Has(n, "props")

\* an export is done whose first page has no root props, or root props
\* without pageTitle, and the archive handed over holds untitled.tsx
C15_Witness ==
  /\ pc = "done" /\ pagesFolder
  /\ \E k \in 1..Len(code) : NoTitle(pages[k])
  /\ \/ ~Has(pages[1].data.root, "props")
     \/ (Has(pages[1].data.root, "props") /\ ~Has(pages[1].data.root.props, "pageTitle"))
  /\ << "src/pages/" >> \o S_untitled \o << ".tsx" >> \in DOMAIN saved[Len(saved)].content

\* ------------------------------------------------------------------------
\* C16
\* ------------------------------------------------------------------------
RECURSIVE Encounters(_, _, _)
\* the types the depth-first dependency traversal meets, in the order it
\* meets them and as often as it meets them: for each item its own type,
\* then its companion type, then the items of its zones in key order
Encounters(items, data, depth) ==
  IF depth > MaxStack THEN <<>>
  ELSE Flatten([k \in 1..Len(items) |->
         LET i == items[k]
             zones == IF HasPuckId(i) /\ i.readOnly.puckId # <<>> /\ Has(data, "zones")
                      THEN SelectSeq(data.zones,
                                     LAMBDA e : startsWith(e.key, i.readOnly.puckId))
                      ELSE <<>>
         IN << i.type >>
              \o (IF i.type \in { "Input", "Progress" } THEN << "Label" >> ELSE <<>>)
              \o Flatten([z \in 1..Len(zones) |-> Encounters(zones[z].items, data, depth + 1)])])

\* the elements of the sequence at the position of their first occurrence
FirstOccurrences(seq) ==
  SelectSeq([i \in 1..Len(seq) |->
               IF \E j \in 1..(i - 1) : seq[j] = seq[i] THEN "" ELSE seq[i]],
            LAMBDA x : x # "")

\* C16: import declarations are deduplicated and order-stable.  The import
\* declarations of a shadcn page file are those of the types the traversal
\* meets, one for each type, in the order of the first encounters.
C16_ImportOrder ==
  format = "shadcn" =>
    \A k \in 1..Len(code) :
      LET first == FirstOccurrences(Encounters(pages[k].data.content, pages[k].data, 1))
          lines == SelectSeq([i \in 1..Len(first) |-> ImportLine(first[i])],
                             LAMBDA x : x # <<>>)
      IN ImportBlock(code[k]) = Join(lines, << "\n" >>)

\* a shadcn page is compiled on which the traversal meets an imported type
\* a second time, in a zone, and that has three import declarations or more
C16_Witness ==
  /\ format = "shadcn"
  /\ \E k \in 1..Len(code) :
       LET e == Encounters(pages[k].data.content, pages[k].data, 1)
       IN /\ \E i, j \in 1..Len(e) : i < j /\ e[i] = e[j] /\ e[i] \in ImportedTypes
          /\ Cardinality(Range(e) \cap ImportedTypes) >= 3
          /\ Len(e) > Len(pages[k].data.content) + 1

\* ------------------------------------------------------------------------
\* C17
\* ------------------------------------------------------------------------
RECURSIVE InOrder(_, _, _)
\* the texts ms occur in text one after the other, in their order, from
\* position from on (each at its first place after the one before)
InOrder(ms, text, from) ==
  IF ms = <<>> THEN TRUE
  ELSE IF Head(ms) = <<>> THEN InOrder(Tail(ms), text, from)
  ELSE LET at == { p \in from..Len(text) : OccursAt(Head(ms), text, p) }
       IN /\ at # {}
          /\ InOrder(Tail(ms), text, (CHOOSE p \in at : \A q \in at : p <= q) + Len(Head(ms)))

\* the text that opens the wrapper of a column
ColumnOpen(fmt) ==
  IF fmt = "shadcn" THEN << ShadcnColumn(<<>>)[1] >> ELSE << BootstrapColumn(1, <<>>)[1] >>

\* the markup of the items, one text for each, in their stored order
Markups(items, data, fmt) == [i \in 1..Len(items) |-> EmitJSX(items[i], data, fmt)]

\* C17: sequence order is preserved.  In every compiled page, for both
\* targets, the markup of the root nodes occurs in the file in their stored
\* order, and the markup of every Section of the page's tree holds, column
\* after column in index order, the opening of the column wrapper and then
\* the markup of the children of the column's zone in their stored order.
C17_SequenceOrder ==
  \A k \in 1..Len(code) :
    LET data == pages[k].data IN
    /\ InOrder(Markups(data.content, data, format), code[k], 1)
    /\ \A s \in PageTree(pages[k]) :
         s.type = "Section" =>
           InOrder(Flatten([i \in 1..Columns(s) |->
                              << ColumnOpen(format) >>
                                \o Markups(ZoneItems(data, ColKey(PuckIdStr(s), i - 1)),
                                           data, format)]),
                   EmitJSX(s, data, format), 1)

\* an export is done of a page with three root nodes, among them a Section
\* of two columns that have two children each, all with markup
C17_Witness ==
  /\ pc = "done"
  /\ \E k \in 1..Len(code) :
       LET data == pages[k].data IN
       /\ Len(data.content) >= 3
       /\ \A i \in 1..Len(data.content) : EmitJSX(data.content[i], data, format) # <<>>
       /\ \E s \in Range(data.content) :
            /\ s.type = "Section" /\ Columns(s) >= 2
            /\ \A i \in 0..1 :
                 LET zi == ZoneItems(data, ColKey(PuckIdStr(s), i))
                 IN Len(zi) >= 2 /\ \A c \in Range(zi) : EmitJSX(c, data, format) # <<>>

\* ------------------------------------------------------------------------
\* C18
\* ------------------------------------------------------------------------
\* C18: companion types.  In a shadcn export, the file of every page whose
\* reachable tree holds an Input or a Progress node has the import
\* declaration of Label once, and the manifest command lists 'label' once.
C18_CompanionLabel ==
  format = "shadcn" =>
    \A k \in 1..Len(code) :
      (\E n \in PageTree(pages[k]) : n.type \in { "Input", "Progress" }) =>
        /\ Cardinality(Occurrences(ImportLine("Label"), code[k])) = 1
        /\ Built =>
             Cardinality({ i \in 1..Len(Listed(zip[ReadmePath])) :
                             Listed(zip[ReadmePath])[i] = SHADCN_COMPONENT_MAP("Label").cli }) = 1

\* ------------------------------------------------------------------------
\* C19
\* ------------------------------------------------------------------------
\* C19: saveProject never mutates its input.  No step of a call, whether it
\* ends done or rejected and whatever the target, changes the pages array:
\* its pages, their root props, content sequences and zone maps, and the
\* props of their nodes.
C19_InputNotMutated == [][pages' = pages]_vars

\* a second call is done after a first call that was rejected, on two pages
\* of which one has no root props
C19_Witness ==
  /\ run = 2 /\ prev.pc = "rejected" /\ pc = "done"
  /\ Len(pages) = 2
  /\ \E k \in 1..Len(pages) : ~Has(pages[k].data.root, "props")

\* ------------------------------------------------------------------------
\* C20
\* ------------------------------------------------------------------------
\* C20: per-page independence.  The file name and the file text of every
\* compiled page are those its own data and the target give, whatever the
\* other pages of the list and whatever its position; pages with the same
\* data at different positions get the same name and text.
C20_PerPageIndependence ==
  /\ \A k \in 1..Len(code) :
       /\ code[k] = PageCode(pages[k], format)
       /\ pageNames[k] = PageName(pages[k])
  /\ \A j, k \in 1..Len(code) :
       pages[j].data = pages[k].data => code[j] = code[k] /\ pageNames[j] = pageNames[k]

\* a shadcn export is done of two pages with different imports, the second
\* page without the types of the first
C20_Witness ==
  /\ pc = "done" /\ format = "shadcn" /\ Len(pages) = 2
  /\ ImportBlock(code[1]) # <<>> /\ ImportBlock(code[2]) # <<>>
  /\ Range(UsedOnPage(pages[1]).used) \cap Range(UsedOnPage(pages[2]).used) = {}
  /\ allUsedComponents = UsedOnPage(pages[1]).used \o UsedOnPage(pages[2]).used

\* ------------------------------------------------------------------------
\* C21
\* ------------------------------------------------------------------------
\* the page with the title t
Retitled(page, t) ==
  [page EXCEPT !.data.root = [props |-> [f \in DOMAIN PageProps(page) \cup { "pageTitle" } |->
                                           IF f = "pageTitle" THEN t ELSE PageProps(page)[f]]]]

\* C21: derived identifier shape.  The identifier of every compiled page is
\* not empty and has only lowercase letters, digits and underscores; it is
\* 'untitled' when the title is empty; and the identifier derived from it as
\* a title is the identifier itself.
C21_IdentifierShape ==
  \A k \in 1..Len(code) :
    LET name == pageNames[k]
        pageProps == PageProps(pages[k])
    IN /\ name # <<>>
       /\ \A i \in 1..Len(name) : name[i] \in Range(Lower) \cup Range(Digits) \cup { "_" }
       /\ (Has(pageProps, "pageTitle") /\ pageProps.pageTitle = <<>>) => name = S_untitled
       /\ PageName(Retitled(pages[k], name)) = name

\* a page is compiled whose title has a capital letter and a character that
\* is neither a letter nor a digit
C21_Witness ==
  \E k \in 1..Len(code) :
    LET pageProps == PageProps(pages[k]) IN
    /\ Has(pageProps, "pageTitle")
    /\ \E c \in Range(pageProps.pageTitle) : c \in Range(Upper)
    /\ \E c \in Range(pageProps.pageTitle) : ~IsAlnum(c)
    /\ pageNames[k] # pageProps.pageTitle

\* ------------------------------------------------------------------------
\* C25
\* ------------------------------------------------------------------------
\* C25: the exported page function has a valid name.  The function name
\* written into every compiled page file, the identifier with its first
\* character in upper case, begins with a letter or an underscore and has
\* only letters, digits and underscores.
C25_ValidFunctionName ==
  \A k \in 1..Len(code) :
    LET fn == FunctionName(pageNames[k])
        letters == Range(Lower) \cup Range(Upper) \cup { "_" }
    IN Contains(code[k], fn \o << RootTemplate(format)[1].lit >>) =>
         /\ fn # <<>>
         /\ fn[1] \in letters
         /\ \A i \in 1..Len(fn) : fn[i] \in letters \cup Range(Digits)

\* ------------------------------------------------------------------------
\* C22
\* ------------------------------------------------------------------------
\* the keys '<nodeId>:col-i' of the page's zone map with i at or above the
\* column count of the Section that has the id
OrphanKeys(page) ==
  { key \in ZoneKeys(page.data) :
      \E n \in AllNodes(page.data) :
        /\ n.type = "Section" /\ HasPuckId(n) /\ Has(n, "props")
        /\ \E i \in ColCount(n.props)..(ColCount(n.props) + MaxCols) :
             key = ColKey(n.readOnly.puckId, i) }

\* the page without the orphaned entries of its zone map
WithoutOrphans(page) ==
  IF OrphanKeys(page) = {} THEN page
  ELSE [page EXCEPT !.data.zones = SelectSeq(@, LAMBDA e : e.key \notin OrphanKeys(page))]

\* C22: orphaned zones are inert.  The file of every compiled page is the
\* file of the page without its orphaned zones (no markup and no import
\* declaration comes from them), and the install command of a shadcn README
\* lists no name of a type that is collected only through an orphaned zone.
C22_OrphanedZonesInert ==
  /\ \A k \in 1..Len(code) :
       OrphanKeys(pages[k]) # {} => code[k] = PageCode(WithoutOrphans(pages[k]), format)
  /\ (Built /\ format = "shadcn") =>
       \A t \in CliTypes :
         t \notin UNION { Range(UsedOnPage(WithoutOrphans(pages[k])).used) : k \in 1..Len(pages) }
           => \A i \in 1..Len(Listed(zip[ReadmePath])) :
                Listed(zip[ReadmePath])[i] # SHADCN_COMPONENT_MAP(t).cli

\* ------------------------------------------------------------------------
\* C23
\* ------------------------------------------------------------------------
\* the ids of the page's nodes are pairwise distinct
DistinctIds(page) ==
  LET seqs == { page.data.content }
                \cup (IF Has(page.data, "zones")
                      THEN { page.data.zones[k].items : k \in 1..Len(page.data.zones) } ELSE {})
      places == { << q, i >> \in seqs \X (1..(MaxCols + 1)) : i <= Len(q) /\ HasPuckId(q[i]) }
  IN \A a, b \in places :
       a[1][a[2]].readOnly.puckId = b[1][b[2]].readOnly.puckId => a = b

\* C23: dependency collection terminates.  The export of a page whose node
\* ids are pairwise distinct never rejects with the RangeError of a findUsed
\* that exhausts the call stack: it gets to the packaging.
C23_FindUsedTerminates ==
  (pc = "rejected" /\ DistinctIds(pages[pageIdx])) => error # "RangeError"

\* ------------------------------------------------------------------------
\* C24
\* ------------------------------------------------------------------------
\* the nodes the emitter gets to: the root nodes and the items of the zones
\* it resolves
EmittedNodes(page) ==
  Range(page.data.content)
    \cup UNION { Range(ZoneItems(page.data, key)) :
                 key \in EmitterZones(page.data.content, page.data, 1) }

\* C24: emitted components are imported.  In every page file compiled for
\* shadcn, a node the emitter gets to, whose markup is in the file and whose
\* type has an import path, has its import declaration in the file; also
\* under a Section without readOnly.puckId.
C24_EmittedAreImported ==
  format = "shadcn" =>
    \A k \in 1..Len(code) :
      \A n \in EmittedNodes(pages[k]) :
        ( /\ n.type \in ImportedTypes
          /\ EmitJSX(n, pages[k].data, format) # <<>>
          /\ Contains(code[k], EmitJSX(n, pages[k].data, format)) )
          => Contains(code[k], ImportLine(n.type))

\* ------------------------------------------------------------------------
\* C26
\* ------------------------------------------------------------------------
\* the Section's zones hold no Section: every column wrapper of its markup
\* is its own
FlatSection(n, data) ==
  \A i \in 1..ColCount(n.props) :
    \A zi \in Range(ZoneItems(data, ZoneKey(n, i - 1))) : zi.type # "Section"

\* the column count written into 'repeat(N, ...)' of a Section's markup:
\* the text between 'repeat(' and the comma after it
GridCount(markup) ==
  LET opens == { q \in 1..Len(markup) : markup[q] = ShadcnSectionOpen[10].lit }
      q == CHOOSE x \in opens : \A y \in opens : x <= y
      commas == { r \in (q + 1)..Len(markup) : markup[r] = ShadcnSectionOpen[12].lit }
      r == CHOOSE x \in commas : \A y \in commas : x <= y
  IN SubSeq(markup, q + 1, r - 1)

\* C26: the Section column count is consistent.  For every root Section of
\* a page compiled for shadcn, the number of column wrappers in its markup
\* is the column count written into the grid template of that markup.
C26_ColumnCountConsistent ==
  format = "shadcn" =>
    \A k \in 1..Len(code) :
      \A n \in Range(pages[k].data.content) :
        (n.type = "Section" /\ Has(n, "props") /\ FlatSection(n, pages[k].data)) =>
          LET markup == EmitJSX(n, pages[k].data, format) IN
          /\ Contains(code[k], markup)
          /\ GridCount(markup) = NumStr(Cardinality(Occurrences(ColumnOpen(format), markup)))

\* ------------------------------------------------------------------------
\* C27
\* ------------------------------------------------------------------------
\* the width written into the class 'col-md-W' of the first column wrapper
\* of a bootstrap Section's markup, as text
WidthText(markup) ==
  LET opens == { q \in 1..Len(markup) : markup[q] = BootstrapColumn(1, <<>>)[1] }
      q == CHOOSE x \in opens : \A y \in opens : x <= y
      ends == { r \in (q + 1)..Len(markup) : markup[r] = BootstrapColumn(1, <<>>)[3] }
      r == CHOOSE x \in ends : \A y \in ends : x <= y
  IN SubSeq(markup, q + 1, r - 1)

\* C27: the bootstrap column width stays on the 12-unit grid.  For every
\* root Section of a page compiled for bootstrap, with column count N, the
\* width W of the class 'col-md-W' in its markup is in 1..12 and N * W is
\* at most 12.
C27_WidthOnGrid ==
  format = "bootstrap" =>
    \A k \in 1..Len(code) :
      \A n \in Range(pages[k].data.content) :
        (n.type = "Section" /\ Has(n, "props")) =>
          LET markup == EmitJSX(n, pages[k].data, format) IN
          /\ Contains(code[k], markup)
          /\ \E w \in 1..12 : WidthText(markup) = NumStr(w) /\ ColCount(n.props) * w <= 12

\* ------------------------------------------------------------------------
\* C29
\* ------------------------------------------------------------------------
\* the text that opens the markup of a node of type t under the target, and
\* the text that opens a column wrapper (t = "column")
Opening(t, fmt) ==
  IF t = "column" THEN ColumnOpen(fmt)[1]
  ELSE EmitJSX(Node(t, DefaultProps(t)), [content |-> <<>>, zones |-> <<>>], fmt)[1]

\* every opening text, with its target and its type
Openings ==
  { << fmt, t, Opening(t, fmt) >> : fmt \in Formats, t \in EmitterCases \cup { "column" } }

\* the walk a markup shows: the types of the nodes and the column wrappers
\* whose opening text it holds, in the order of the markup
Walk(markup, fmt) ==
  LET marks == SelectSeq(markup, LAMBDA x : << fmt, x >> \in { << o[1], o[3] >> : o \in Openings })
  IN [i \in 1..Len(marks) |-> (CHOOSE o \in Openings : o[1] = fmt /\ o[3] = marks[i])[2]]

\* C29: the two targets walk the same tree.  At the step that compiles a
\* page, for every node of the page's data: the node has empty markup under
\* one target exactly when it has under the other, and throws under one
\* exactly when under the other; and the markup of a root node shows the
\* same walk under both targets: the same nodes and column wrappers, by
\* type, in the same order.  The page file holds the markup of the active
\* target.
C29_SameWalk ==
  (pc = "forEach" /\ Len(code) >= 1) =>
    LET k == Len(code)
        data == pages[k].data
    IN /\ \A n \in AllNodes(data) :
            LET shadcn == EmitJSX(n, data, "shadcn")
                bootstrap == EmitJSX(n, data, "bootstrap")
            IN /\ (shadcn = <<>>) <=> (bootstrap = <<>>)
               /\ Threw(shadcn) <=> Threw(bootstrap)
       /\ \A n \in Range(data.content) :
            LET shadcn == EmitJSX(n, data, "shadcn")
                bootstrap == EmitJSX(n, data, "bootstrap")
            IN /\ Contains(code[k], IF format = "shadcn" THEN shadcn ELSE bootstrap)
               /\ ~Threw(shadcn) => Walk(shadcn, "shadcn") = Walk(bootstrap, "bootstrap")

\* a page is compiled for bootstrap that has a Section of two columns whose
\* zones have two children each, all in the walk of both targets
C29_Witness ==
  /\ pc = "forEach" /\ Len(code) >= 1 /\ format = "bootstrap"
  /\ LET data == pages[Len(code)].data IN
     \E s \in Range(data.content) :
       /\ s.type = "Section" /\ Columns(s) = 2
       /\ \A i \in 0..1 : Len(ZoneItems(data, ColKey(PuckIdStr(s), i))) = 2
       /\ \A fmt \in Formats :
            LET walk == Walk(EmitJSX(s, data, fmt), fmt) IN
            /\ Len(walk) = 7
            /\ walk[1] = "Section" /\ walk[2] = "column" /\ walk[5] = "column"

\* ------------------------------------------------------------------------
\* C28
\* ------------------------------------------------------------------------
\* the call whose download a step hands over: the call in hand when it goes
\* from generateAsync to done, else the first call set aside
Resolving ==
  IF pc = "generateAsync" /\ pc' = "done"
  THEN [snapshot |-> snapshot, format |-> format]
  ELSE [snapshot |-> Head(pending).snapshot, format |-> Head(pending).format]

\* C28: export works on a snapshot.  Every step that hands over a download
\* hands over one archive, and it is the archive saveProject builds alone
\* from the pages as they were when that call started, whatever the editor
\* did to the pages since and whatever other export was started meanwhile.
C28_ExportWorksOnSnapshot ==
  [][saved' # saved =>
       /\ Len(saved') = Len(saved) + 1
       /\ SubSeq(saved', 1, Len(saved)) = saved
       /\ saved'[Len(saved')] =
            [content |-> ArchiveOf(Resolving.snapshot, Resolving.format),
             name |-> << Resolving.format, "-project-export.zip" >>]]_vars

\* two exports started one during the other have both handed over their
\* archive, the archives differ, and the pages were edited after the last
\* one started
C28_Witness ==
  /\ Len(saved) = 2
  /\ saved[1].content # saved[2].content
  /\ pending = <<>> /\ pc = "done"
  /\ snapshot # pages

====
